---------------------------- MODULE Spec2Model ----------------------------
(***************************************************************************)
(* A model of the ServiceNow MCP servers (server.py,                       *)
(* server_lowlevel_backup.py, server_fastmcp.py) and of the JWT helper     *)
(* (jwt_auth.py).                                                          *)
(*                                                                         *)
(* Conventions.                                                            *)
(*  - A Python Optional is a sequence of length 0 (None) or 1 (a value).   *)
(*  - A Python str built by an f-string is the sequence of its fragments;  *)
(*    concatenation is \o, so "starts with" is a test on the first         *)
(*    fragment.                                                            *)
(*  - A Python dict is a record holding exactly the keys the dict holds    *)
(*    (the "timestamp" key, datetime.now().isoformat(), is left out: no    *)
(*    operation reads it back).                                            *)
(*  - A call either returns or raises: [raised |-> FALSE, value |-> v] or  *)
(*    [raised |-> TRUE, exc |-> [type |-> t, msg |-> m]].                  *)
(*  - The third-party objects (the ServiceNow client, PyJWT) are not part  *)
(*    of the repository: what they return is an input of the action that   *)
(*    calls them, drawn from a small set.                                  *)
(***************************************************************************)
EXTENDS Integers, Sequences, FiniteSets, TLC

(***************************************************************************)
(* Bounds of the model.                                                    *)
(***************************************************************************)
MaxConstructions == 2

\* Operations of one run in which the JWT manager issues tokens.
MaxIssued == 2

\* The clock's resolution: ticks in a second.  Timestamps are floats in the
\* code; a tick is the fraction of a second the model tells apart.
TicksPerSecond == 2

(***************************************************************************)
(* Constants of the program.                                               *)
(***************************************************************************)
SecondsPerHour == 3600

SecondsPerDay == 86400

DefaultExpiryHours == 24

DefaultRefreshExpiryDays == 30

(***************************************************************************)
(* Python values.                                                          *)
(***************************************************************************)
None == <<>>

Some(x) == <<x>>

IsNone(o) == Len(o) = 0

Returned(v) == [raised |-> FALSE, value |-> v]

Raised(t, m) == [raised |-> TRUE, exc |-> [type |-> t, msg |-> m]]

\* bool(x) of an Optional[str]: None and "" are falsy.
Truthy(o) == Len(o) = 1 /\ o[1] # ""

\* str.startswith on a message given by its fragments.
StartsWith(m, p) == Len(m) >= 1 /\ m[1] = p

VARIABLES
    environ,          \* os.environ: the three SERVICENOW_* credentials
    has_test_method,  \* whether the client class defines test_connection
    snow_connection,  \* server.py: the module-level connection handle
    constructed,      \* server.py: constructor invocations so far
    tool,             \* server.py: the tool called last ("" before any call)
    arguments,        \* server.py: the arguments of that call (None: it takes none)
    upstream,         \* server.py: what the client did with that call's request
    failure,          \* server.py: the exception raised while handling that call
    connection,       \* server.py: what get_snow_connection returned to that call
    last_built,       \* server.py: constructor invocations made by that call
    request,          \* server.py: the request that call passed to the client
    resp,             \* server.py: what the last tool call returned
    propagated,       \* server.py: the exception the last tool call let escape
    low_connection,   \* server_lowlevel_backup.py: the connection handle
    low_constructed,  \* server_lowlevel_backup.py: constructor invocations so far
    low_tool,         \* server_lowlevel_backup.py: the tool name called last
    low_arguments,    \* server_lowlevel_backup.py: the arguments of that call
    low_failure,      \* server_lowlevel_backup.py: the exception raised in that call
    low_request,      \* server_lowlevel_backup.py: the request that call made
    low_result,       \* server_lowlevel_backup.py: the CallToolResult returned
    low_propagated,   \* server_lowlevel_backup.py: the exception call_tool let escape
    pyjwt,            \* the installed PyJWT release's expiry comparison
    jwt_auth,         \* jwt_auth.py: the manager's configuration
    now,              \* the clock, in ticks
    issued,           \* operations that have issued tokens so far
    token,            \* the token held by the client (None: none yet)
    origin,           \* the generate_token call that token comes from, if any
    jwt_op,           \* the JWT operation run last ("" before any)
    jwt_in,           \* the token that operation was given
    jwt_at,           \* the clock when it ran
    jwt_out,          \* what the manager's method did
    jwt_tool,         \* what the MCP tool wrapping it returned
    fast_connection,  \* server_fastmcp.py: the module-level connection handle
    fast_constructed, \* server_fastmcp.py: constructor invocations so far
    fast_tool,        \* server_fastmcp.py: the tool called last ("" before any call)
    fast_failure,     \* server_fastmcp.py: the exception raised while handling it
    fast_request,     \* server_fastmcp.py: the request that call passed to the client
    fast_resp,        \* server_fastmcp.py: what that call returned
    oauth_pc,         \* godaddy_oauth_example.py: where the script is
    oauth_state,      \* godaddy_oauth_example.py: the global state
    oauth_code,       \* godaddy_oauth_example.py: the global code
    oauth_callback,   \* the one request the local server handled (None: none yet)
    oauth_exchanged,  \* the auth_code exchange_code_for_token was called with
    oauth_token_data, \* what exchange_code_for_token returned
    patch_file,       \* urllib3_patch_final.py: the lines of observability_snow.py
    patch_original,   \* the lines the file held at the start
    patch_history,    \* the operations run on the file, in order
    patch_returned,   \* what the last operation returned
    adapter_closed,   \* HttpxRequestsAdapter: whether close() was called
    adapter_calls,    \* HttpxRequestsAdapter: calls made so far
    adapter_method,   \* the method called last ("" before any call)
    adapter_args,     \* the arguments of that call
    adapter_attempts, \* the transports that call sent through, with what each did
    adapter_out       \* what that call returned or raised

serverVars == <<environ, has_test_method, snow_connection, constructed,
                tool, arguments, upstream, failure, connection, last_built,
                request, resp, propagated>>

lowVars == <<low_connection, low_constructed, low_tool, low_arguments,
             low_failure, low_request, low_result, low_propagated>>

jwtVars == <<pyjwt, jwt_auth, now, issued, token, origin, jwt_op, jwt_in,
             jwt_at, jwt_out, jwt_tool>>

serverVarsRest == <<snow_connection, constructed, tool, arguments, upstream,
                    failure, connection, last_built, request, resp, propagated>>

fastVars == <<fast_connection, fast_constructed, fast_tool, fast_failure,
              fast_request, fast_resp>>

oauthVars == <<oauth_pc, oauth_state, oauth_code, oauth_callback,
               oauth_exchanged, oauth_token_data>>

patchVars == <<patch_file, patch_original, patch_history, patch_returned>>

adapterVars == <<adapter_closed, adapter_calls, adapter_method, adapter_args,
                 adapter_attempts, adapter_out>>

vars == <<serverVars, lowVars, jwtVars, fastVars, oauthVars, patchVars,
          adapterVars>>

(***************************************************************************)
(* The environment a server process is started in.                         *)
(***************************************************************************)
EnvValues == {None, Some(""), Some("set")}

Environments ==
    [SERVICENOW_INSTANCE_URL : EnvValues,
     SERVICENOW_USERNAME : EnvValues,
     SERVICENOW_PASSWORD : EnvValues]

\* What the ObservabilityServiceNowJWT constructor can do.
CtorOutcomes ==
    {Returned("connection"), Raised("KeyError", <<"'access_token'">>)}

(***************************************************************************)
(* server.py: get_snow_connection.  h is the handle before the call, ctor  *)
(* what the constructor does if it is invoked, n the constructor           *)
(* invocations before the call.  The value is the call's outcome, the      *)
(* handle after it and the constructor invocations it made.                *)
(***************************************************************************)
all_credentials(env) ==
    /\ Truthy(env.SERVICENOW_INSTANCE_URL)
    /\ Truthy(env.SERVICENOW_USERNAME)
    /\ Truthy(env.SERVICENOW_PASSWORD)

MissingCredentials ==
    <<"Missing ServiceNow credentials. Please set SERVICENOW_INSTANCE_URL, SERVICENOW_USERNAME, and SERVICENOW_PASSWORD environment variables.">>

get_snow_connection_always_new(h, env, ctor, n) ==
    IF ~all_credentials(env)
    THEN [out |-> Raised("ValueError", MissingCredentials), handle |-> h, built |-> 0]
    ELSE IF ctor.raised
    THEN [out |-> Raised("ValueError",
                         <<"Failed to create ServiceNow connection: ">> \o ctor.exc.msg),
          handle |-> h, built |-> 1]
    ELSE [out |-> Returned(n + 1), handle |-> Some(n + 1), built |-> 1]

get_snow_connection_credentials_unchecked(h, env, ctor, n) ==
    IF ~IsNone(h)
    THEN [out |-> Returned(h[1]), handle |-> h, built |-> 0]
    ELSE IF ctor.raised
    THEN [out |-> Raised("ValueError",
                         <<"Failed to create ServiceNow connection: ">> \o ctor.exc.msg),
          handle |-> None, built |-> 1]
    ELSE [out |-> Returned(n + 1), handle |-> Some(n + 1), built |-> 1]

get_snow_connection_failure_cached(h, env, ctor, n) ==
    IF ~IsNone(h)
    THEN [out |-> Returned(h[1]), handle |-> h, built |-> 0]
    ELSE IF ~all_credentials(env)
    THEN [out |-> Raised("ValueError", MissingCredentials), handle |-> h, built |-> 0]
    ELSE IF ctor.raised
    THEN [out |-> Raised("ValueError",
                         <<"Failed to create ServiceNow connection: ">> \o ctor.exc.msg),
          handle |-> Some(n + 1), built |-> 1]
    ELSE [out |-> Returned(n + 1), handle |-> Some(n + 1), built |-> 1]

get_snow_connection(h, env, ctor, n) ==
    IF ~IsNone(h)
    THEN [out |-> Returned(h[1]), handle |-> h, built |-> 0]
    ELSE IF ~all_credentials(env)
    THEN [out |-> Raised("ValueError", MissingCredentials), handle |-> h, built |-> 0]
    ELSE IF ctor.raised
    THEN [out |-> Raised("ValueError",
                         <<"Failed to create ServiceNow connection: ">> \o ctor.exc.msg),
          handle |-> None, built |-> 1]
    ELSE [out |-> Returned(n + 1), handle |-> Some(n + 1), built |-> 1]


(***************************************************************************)
(* Every tool of server.py has the shape                                   *)
(*     try: <body> ; return result                                         *)
(*     except Exception as e: return {"success": False, "error": str(e)}   *)
(* A tool's value is [handle, built, conn, request, exc, out]: the handle  *)
(* after the call, the constructor invocations made, the connection the    *)
(* call worked with (None when it got none), the request passed to the     *)
(* client (None when none was made), the exception raised in the try       *)
(* block (None when none was) and what the caller sees.                    *)
(***************************************************************************)
error_response(exc) == [success |-> FALSE, error |-> exc.msg]

RECURSIVE Join(_, _)
\* sep.join(parts), each part given by its fragments.
Join(parts, sep) ==
    IF Len(parts) = 0 THEN <<>>
    ELSE IF Len(parts) = 1 THEN parts[1]
    ELSE parts[1] \o <<sep>> \o Join(Tail(parts), sep)

query_parts_empty_kept(a) ==
    (IF ~IsNone(a.state) THEN << <<"state=", a.state[1]>> >> ELSE <<>>)
    \o (IF ~IsNone(a.priority) THEN << <<"priority=", a.priority[1]>> >> ELSE <<>>)
    \o (IF ~IsNone(a.assignment_group)
        THEN << <<"assignment_group.name=", a.assignment_group[1]>> >> ELSE <<>>)
    \o (IF ~IsNone(a.caller_id)
        THEN << <<"caller_id.email=", a.caller_id[1]>> >> ELSE <<>>)

\* Lines 141-151 of server.py (and 163-173 of server_lowlevel_backup.py).
query_parts(a) ==
    (IF Truthy(a.state) THEN << <<"state=", a.state[1]>> >> ELSE <<>>)
    \o (IF Truthy(a.priority) THEN << <<"priority=", a.priority[1]>> >> ELSE <<>>)
    \o (IF Truthy(a.assignment_group)
        THEN << <<"assignment_group.name=", a.assignment_group[1]>> >> ELSE <<>>)
    \o (IF Truthy(a.caller_id)
        THEN << <<"caller_id.email=", a.caller_id[1]>> >> ELSE <<>>)

extra_params(a) ==
    IF Len(query_parts(a)) > 0 THEN Some(Join(query_parts(a), "&")) ELSE None

incidents_request(a) ==
    [method |-> "get_table_with_offset", table |-> "incident",
     rows |-> a.limit, extra_params |-> extra_params(a)]

incidents_result_any_2xx(up) ==
    IF up.raised THEN up
    ELSE IF up.value.status \notin 200..299
    THEN Raised("Exception",
                <<"Failed to retrieve incidents: HTTP ", ToString(up.value.status)>>)
    ELSE LET incidents == IF IsNone(up.value.body.result) THEN <<>>
                          ELSE up.value.body.result[1]
         IN Returned([success |-> TRUE, count |-> Len(incidents),
                      incidents |-> incidents])

\* The body of get_servicenow_incidents after the connection was obtained.
\* up is what connection.get_table_with_offset does: it raises, or returns
\* the parsed body (a dict, whose "result" is a list when it is there) and
\* the status code.
incidents_result(up) ==
    IF up.raised THEN up
    ELSE IF up.value.status # 200
    THEN Raised("Exception",
                <<"Failed to retrieve incidents: HTTP ", ToString(up.value.status)>>)
    ELSE LET incidents == IF IsNone(up.value.body.result) THEN <<>>
                          ELSE up.value.body.result[1]
         IN Returned([success |-> TRUE, count |-> Len(incidents),
                      incidents |-> incidents])

get_servicenow_incidents_conn_outside_try(h, env, n, a, ctor, up) ==
    LET c == get_snow_connection(h, env, ctor, n)
        body == incidents_result(up)
    IN [handle |-> c.handle, built |-> c.built,
        conn |-> IF c.out.raised THEN None ELSE Some(c.out.value),
        request |-> IF c.out.raised THEN None ELSE Some(incidents_request(a)),
        exc |-> IF c.out.raised THEN Some(c.out.exc)
                ELSE IF body.raised THEN Some(body.exc) ELSE None,
        out |-> IF c.out.raised THEN c.out
                ELSE IF body.raised THEN Returned(error_response(body.exc))
                ELSE body]

get_servicenow_incidents(h, env, n, a, ctor, up) ==
    LET c == get_snow_connection(h, env, ctor, n)
        body == IF c.out.raised THEN c.out ELSE incidents_result(up)
    IN [handle |-> c.handle, built |-> c.built,
        conn |-> IF c.out.raised THEN None ELSE Some(c.out.value),
        request |-> IF c.out.raised THEN None ELSE Some(incidents_request(a)),
        exc |-> IF body.raised THEN Some(body.exc) ELSE None,
        out |-> IF body.raised THEN Returned(error_response(body.exc)) ELSE body]

(***************************************************************************)
(* search_knowledge_base.  An article is a dict with an optional "text"    *)
(* and an optional "short_description", each {"value": <str>}.  The four   *)
(* steps of the sanitisation (html.unescape, the removal of tags, the      *)
(* collapse of white space, the removal of control characters) are given   *)
(* by their result on the texts the model draws.                           *)
(***************************************************************************)
clean_text(t) ==
    CASE t = "<p>Reset  the <b>VPN</b></p>" -> "Reset the VPN"
      [] t = "a &amp; b" -> "a & b"
      [] OTHER -> t

sanitize_field(f) == IF Truthy(f) THEN Some(clean_text(f[1])) ELSE f

sanitize_article(art) ==
    [art EXCEPT !.text = sanitize_field(@),
                !.short_description = sanitize_field(@)]

search_request(a) ==
    [method |-> "list_articles", limit |-> a.limit, offset |-> 0,
     query |-> a.search_term, category |-> a.category]

\* Lines 237-260: the list the articles are taken from.
select_articles(r) ==
    IF ~IsNone(r.articles) THEN r.articles[1]
    ELSE IF ~IsNone(r.result) THEN r.result[1]
    ELSE IF ~IsNone(r.data) /\ Len(r.data[1]) > 0 THEN r.data[1]
    ELSE <<>>

search_result(up) ==
    IF up.raised THEN up
    ELSE IF ~up.value.is_dict
    THEN Raised("AttributeError", <<"'list' object has no attribute 'get'">>)
    ELSE IF ~(up.value.success = Some(TRUE))
    THEN Raised("Exception",
                IF IsNone(up.value.message) THEN <<"Failed to search knowledge base">>
                ELSE up.value.message[1])
    ELSE LET articles == select_articles(up.value)
             sanitized == [i \in 1..Len(articles) |-> sanitize_article(articles[i])]
         IN Returned([success |-> TRUE, count |-> Len(sanitized),
                      articles |-> sanitized])

search_knowledge_base(h, env, n, a, ctor, up) ==
    LET c == get_snow_connection(h, env, ctor, n)
        body == IF c.out.raised THEN c.out ELSE search_result(up)
    IN [handle |-> c.handle, built |-> c.built,
        conn |-> IF c.out.raised THEN None ELSE Some(c.out.value),
        request |-> IF c.out.raised THEN None ELSE Some(search_request(a)),
        exc |-> IF body.raised THEN Some(body.exc) ELSE None,
        out |-> IF body.raised THEN Returned(error_response(body.exc)) ELSE body]

(***************************************************************************)
(* get_knowledge_article.  up.value.article is None both when the          *)
(* response has no "article" key and when it holds an empty one: the code  *)
(* treats the two alike (lines 371-374).                                   *)
(***************************************************************************)
article_request(article_id) == [method |-> "get_article", article_id |-> article_id]

article_result(article_id, up) ==
    IF up.raised THEN up
    ELSE IF ~(up.value.success = Some(TRUE))
    THEN Raised("Exception",
                IF IsNone(up.value.message) THEN <<"Failed to retrieve knowledge article">>
                ELSE up.value.message[1])
    ELSE IF IsNone(up.value.article)
    THEN Raised("Exception", <<"Knowledge article ", article_id, " not found">>)
    ELSE Returned([success |-> TRUE, article |-> up.value.article[1]])

get_knowledge_article(h, env, n, article_id, ctor, up) ==
    LET c == get_snow_connection(h, env, ctor, n)
        body == IF c.out.raised THEN c.out ELSE article_result(article_id, up)
    IN [handle |-> c.handle, built |-> c.built,
        conn |-> IF c.out.raised THEN None ELSE Some(c.out.value),
        request |-> IF c.out.raised THEN None ELSE Some(article_request(article_id)),
        exc |-> IF body.raised THEN Some(body.exc) ELSE None,
        out |-> IF body.raised THEN Returned(error_response(body.exc)) ELSE body]

(***************************************************************************)
(* test_connection.  When the client defines test_connection its result    *)
(* is returned as it is (lines 405-409); otherwise one row of the incident *)
(* table is read (lines 412-428).                                          *)
(***************************************************************************)
test_request(has_method) ==
    IF has_method THEN [method |-> "test_connection"]
    ELSE [method |-> "get_table", table |-> "incident", rows |-> 1]

test_result(has_method, env, up) ==
    IF up.raised THEN up
    ELSE IF has_method THEN Returned(up.value)
    ELSE IF up.value.status # 200
    THEN Raised("Exception", <<"Connection test failed: HTTP ", ToString(up.value.status)>>)
    ELSE Returned([success |-> TRUE, message |-> <<"ServiceNow connection is working">>,
                   connection_details |->
                       [instance_url |-> env.SERVICENOW_INSTANCE_URL,
                        username |-> env.SERVICENOW_USERNAME]])

test_connection(h, env, n, has_method, ctor, up) ==
    LET c == get_snow_connection(h, env, ctor, n)
        body == IF c.out.raised THEN c.out ELSE test_result(has_method, env, up)
    IN [handle |-> c.handle, built |-> c.built,
        conn |-> IF c.out.raised THEN None ELSE Some(c.out.value),
        request |-> IF c.out.raised THEN None ELSE Some(test_request(has_method)),
        exc |-> IF body.raised THEN Some(body.exc) ELSE None,
        out |-> IF body.raised THEN Returned(error_response(body.exc)) ELSE body]

(***************************************************************************)
(* The inputs of the tools and what the ServiceNow client can answer.      *)
(***************************************************************************)
IncidentArgs ==
    [state : {None, Some(""), Some("New")},
     priority : {None, Some("1")},
     assignment_group : {None, Some("Ops")},
     caller_id : {None, Some("a@b.c")},
     limit : {5}]

IncidentLists == {<<>>, <<"INC1", "INC2">>}

TableOutcomes ==
    {Raised("ConnectionError", <<"timed out">>),
     Returned([body |-> [result |-> None], status |-> 404]),
     Returned([body |-> [result |-> Some(<<"INC1", "INC2">>)], status |-> 201]),
     Returned([body |-> [result |-> None], status |-> 200])}
    \cup {Returned([body |-> [result |-> Some(l)], status |-> 200]) :
            l \in IncidentLists}

SearchArgs ==
    [search_term : {None, Some("vpn")}, category : {None, Some("net")}, limit : {10}]

Articles ==
    {[number |-> "KB1", text |-> Some("<p>Reset  the <b>VPN</b></p>"),
      short_description |-> Some("a &amp; b")],
     [number |-> "KB2", text |-> None, short_description |-> Some("plain")]}

ArticleLists == {<<>>} \cup {<<a>> : a \in Articles}

KbArticle == CHOOSE a \in Articles : a.number = "KB1"

KbOutcomes ==
    {Raised("ConnectionError", <<"timed out">>),
     Returned([is_dict |-> FALSE, success |-> None, message |-> None,
               articles |-> None, result |-> None, data |-> None]),
     Returned([is_dict |-> TRUE, success |-> Some(FALSE), message |-> Some(<<"denied">>),
               articles |-> None, result |-> None, data |-> None]),
     Returned([is_dict |-> TRUE, success |-> None, message |-> None,
               articles |-> None, result |-> None, data |-> None])}
    \cup {Returned([is_dict |-> TRUE, success |-> Some(TRUE), message |-> None,
                    articles |-> a, result |-> r, data |-> None]) :
            a \in {None, Some(<<KbArticle>>)},
            r \in {None} \cup {Some(l) : l \in ArticleLists}}
    \cup {Returned([is_dict |-> TRUE, success |-> Some(TRUE), message |-> None,
                    articles |-> None, result |-> None, data |-> Some(l)]) :
            l \in {<<>>, <<KbArticle>>}}

ArticleIds == {"KB1", "KB9"}

ArticleOutcomes ==
    {Raised("ConnectionError", <<"timed out">>),
     Returned([success |-> Some(FALSE), message |-> Some(<<"denied">>), article |-> None]),
     Returned([success |-> None, message |-> None, article |-> None]),
     Returned([success |-> Some(TRUE), message |-> None, article |-> None])}
    \cup {Returned([success |-> Some(TRUE), message |-> None, article |-> Some(a)]) :
            a \in Articles}

\* What connection.test_connection() or connection.get_table() can do.
TestOutcomes(has_method) ==
    {Raised("ConnectionError", <<"timed out">>)}
    \cup IF has_method
         THEN {[raised |-> FALSE,
                value |-> [success |-> TRUE,
                           message |-> <<"ServiceNow connection is working">>]],
               [raised |-> FALSE,
                value |-> [success |-> FALSE,
                           error |-> <<"Authentication failed - check username/password or instance URL">>]]}
         ELSE {Returned([status |-> s]) : s \in {200, 401}}

(***************************************************************************)
(* server.py as a state machine: one action per tool.                      *)
(***************************************************************************)
(***************************************************************************)
(* jwt_auth.py: the configuration JWTAuthManager.__init__ reads from the   *)
(* environment (lines 29-45).                                              *)
(***************************************************************************)
DefaultConfig ==
    [secret_key |-> "secret", algorithm |-> "HS256",
     token_expiry_hours |-> DefaultExpiryHours,
     refresh_token_expiry_days |-> DefaultRefreshExpiryDays,
     issuer |-> "servicenow-mcp-server", audience |-> "servicenow-api"]

JwtConfigs ==
    {DefaultConfig,
     [DefaultConfig EXCEPT !.token_expiry_hours = 48, !.refresh_token_expiry_days = 1,
                           !.issuer = "corp-issuer", !.audience = "corp-api"]}

\* PyJWT releases differ in when a token counts as expired: the first 2.x
\* releases read the clock in whole seconds and take a token for expired
\* when int(exp) < now; the later ones read a float clock and take it for
\* expired when int(exp) <= now.  install_dependencies.py asks for
\* PyJWT>=2.0.0, which either satisfies.
PyJWTReleases == {"exp_lt_now", "exp_le_now"}

JwtIdle ==
    /\ pyjwt = "exp_le_now"
    /\ jwt_auth = DefaultConfig
    /\ now = 0
    /\ issued = 0
    /\ token = None
    /\ origin = None
    /\ jwt_op = ""
    /\ jwt_in = None
    /\ jwt_at = 0
    /\ jwt_out = None
    /\ jwt_tool = None

\* server_fastmcp.py before any tool call.
FastIdle ==
    /\ fast_connection = None
    /\ fast_constructed = 0
    /\ fast_tool = ""
    /\ fast_failure = None
    /\ fast_request = None
    /\ fast_resp = None

\* godaddy_oauth_example.py not started.
OAuthIdle ==
    /\ oauth_pc = "import"
    /\ oauth_state = ""
    /\ oauth_code = None
    /\ oauth_callback = None
    /\ oauth_exchanged = None
    /\ oauth_token_data = None

\* urllib3_patch_final.py not run: no file looked at.
PatchIdle ==
    /\ patch_file = None
    /\ patch_original = None
    /\ patch_history = <<>>
    /\ patch_returned = None

\* No HttpxRequestsAdapter in use.
AdapterIdle ==
    /\ adapter_closed = FALSE
    /\ adapter_calls = 0
    /\ adapter_method = ""
    /\ adapter_args = None
    /\ adapter_attempts = <<>>
    /\ adapter_out = None

\* The state of a server no tool of which has been called.
ServerIdle ==
    /\ snow_connection = None
    /\ constructed = 0
    /\ tool = ""
    /\ arguments = None
    /\ upstream = None
    /\ failure = None
    /\ connection = None
    /\ last_built = 0
    /\ request = None
    /\ resp = None
    /\ propagated = None

LowIdle ==
    /\ low_connection = None
    /\ low_constructed = 0
    /\ low_tool = ""
    /\ low_arguments = None
    /\ low_failure = None
    /\ low_request = None
    /\ low_result = None
    /\ low_propagated = None

ServerInit ==
    /\ environ \in Environments
    /\ has_test_method \in BOOLEAN
    /\ LowIdle
    /\ JwtIdle
    /\ FastIdle
    /\ OAuthIdle
    /\ PatchIdle
    /\ AdapterIdle
    /\ snow_connection = None
    /\ constructed = 0
    /\ tool = ""
    /\ arguments = None
    /\ upstream = None
    /\ failure = None
    /\ connection = None
    /\ last_built = 0
    /\ request = None
    /\ resp = None
    /\ propagated = None

\* The model stops calling once MaxConstructions constructor invocations have
\* failed; a call that finds the handle set invokes no constructor.
CanCall == IsNone(snow_connection) => constructed < MaxConstructions

\* The constructor is invoked only by a call that finds the handle unset:
\* for any other call what it would do is immaterial.
CtorFor(h) == IF IsNone(h) THEN CtorOutcomes ELSE {Returned("connection")}

\* The effect of a tool call with arguments a whose value is r; up is what
\* the client does with the request, if the call gets as far as making it.
ServerCall(name, a, up, r) ==
    /\ tool' = name
    /\ arguments' = a
    /\ upstream' = IF IsNone(r.request) THEN None ELSE Some(up)
    /\ snow_connection' = r.handle
    /\ constructed' = constructed + r.built
    /\ failure' = r.exc
    /\ connection' = r.conn
    /\ last_built' = r.built
    /\ request' = r.request
    /\ resp' = IF r.out.raised THEN None ELSE Some(r.out.value)
    /\ propagated' = IF r.out.raised THEN Some(r.out.exc) ELSE None
    /\ UNCHANGED <<environ, has_test_method, lowVars, jwtVars, fastVars,
                   oauthVars, patchVars, adapterVars>>

GetServicenowIncidents ==
    /\ CanCall
    /\ \E a \in IncidentArgs, ctor \in CtorFor(snow_connection), up \in TableOutcomes :
       \E r \in {get_servicenow_incidents(snow_connection, environ, constructed,
                                         a, ctor, up)} :
          ServerCall("get_servicenow_incidents", Some(a), up, r)

SearchKnowledgeBase ==
    /\ CanCall
    /\ \E a \in SearchArgs, ctor \in CtorFor(snow_connection), up \in KbOutcomes :
       \E r \in {search_knowledge_base(snow_connection, environ, constructed,
                                      a, ctor, up)} :
          ServerCall("search_knowledge_base", Some(a), up, r)

GetKnowledgeArticle ==
    /\ CanCall
    /\ \E id \in ArticleIds, ctor \in CtorFor(snow_connection), up \in ArticleOutcomes :
       \E r \in {get_knowledge_article(snow_connection, environ, constructed,
                                      id, ctor, up)} :
          ServerCall("get_knowledge_article", Some([article_id |-> id]), up, r)

TestConnection ==
    /\ CanCall
    /\ \E ctor \in CtorFor(snow_connection), up \in TestOutcomes(has_test_method) :
       \E r \in {test_connection(snow_connection, environ, constructed,
                                has_test_method, ctor, up)} :
          ServerCall("test_connection", None, up, r)

ServerNext ==
    \/ GetServicenowIncidents
    \/ SearchKnowledgeBase
    \/ GetKnowledgeArticle
    \/ TestConnection

SpecServer == ServerInit /\ [][ServerNext]_vars

(***************************************************************************)
(* C1: in each of the four tools of server.py an exception raised while    *)
(* the call is handled, a failure to obtain the connection included, is    *)
(* caught: the call returns success = false with error = the exception's   *)
(* message, and lets no exception escape.                                  *)
(***************************************************************************)
C1_ErrorsCaught ==
    tool # "" =>
        /\ propagated = None
        /\ resp # None
        /\ failure # None =>
              resp = Some([success |-> FALSE, error |-> failure[1].msg])

\* Each tool has answered a failure; here a failed constructor in test_connection.
C1_Witness ==
    /\ tool = "test_connection"
    /\ failure # None
    /\ StartsWith(failure[1].msg, "Failed to create ServiceNow connection: ")
    /\ resp # None
    /\ resp[1].success = FALSE

C1_WitnessIncidentsUpstream ==
    /\ tool = "get_servicenow_incidents"
    /\ failure = Some([type |-> "Exception",
                       msg |-> <<"Failed to retrieve incidents: HTTP ", "404">>])
    /\ resp # None

(***************************************************************************)
(* C3: the connection handle of server.py is created lazily and at most    *)
(* once: it is unset until a constructor has been invoked, and once it is  *)
(* set every later call works with that same handle, leaves it in place    *)
(* and invokes no constructor.                                             *)
(***************************************************************************)
C3_HandleCreatedOnce ==
    [][/\ IsNone(snow_connection) /\ ~IsNone(snow_connection') =>
              constructed' = constructed + 1
       /\ ~IsNone(snow_connection) =>
              /\ snow_connection' = snow_connection
              /\ connection' = snow_connection
              /\ constructed' = constructed
              /\ last_built' = 0]_vars

\* A call found the handle set by an earlier call and worked with it.
C3_Witness ==
    /\ ~IsNone(snow_connection)
    /\ connection = snow_connection
    /\ last_built = 0
    /\ constructed = 1
    /\ tool = "get_knowledge_article"
    /\ ~IsNone(request)

(***************************************************************************)
(* C12: get_servicenow_incidents of server.py returns success = true       *)
(* exactly when the upstream call returned status code 200; then incidents *)
(* is the upstream "result" list unchanged (the empty list when the body   *)
(* has none) and count is its length; any other status code yields         *)
(* success = false with error "Failed to retrieve incidents: HTTP          *)
(* <status>".                                                              *)
(***************************************************************************)
UpstreamStatus == IF IsNone(upstream) \/ upstream[1].raised THEN 0
                  ELSE upstream[1].value.status

C12_IncidentsPassThrough ==
    tool = "get_servicenow_incidents" =>
        /\ ~IsNone(resp)
        /\ resp[1].success = TRUE <=> UpstreamStatus = 200
        /\ UpstreamStatus = 200 =>
              LET result == upstream[1].value.body.result
                  list == IF IsNone(result) THEN <<>> ELSE result[1]
              IN /\ resp[1].incidents = list
                 /\ resp[1].count = Len(list)
        /\ UpstreamStatus \notin {0, 200} =>
              resp[1] = [success |-> FALSE,
                         error |-> <<"Failed to retrieve incidents: HTTP ",
                                     ToString(UpstreamStatus)>>]

\* Upstream answered 200 with two incidents and the tool passed them on.
C12_Witness ==
    /\ tool = "get_servicenow_incidents"
    /\ UpstreamStatus = 200
    /\ ~IsNone(resp)
    /\ resp[1].success = TRUE
    /\ resp[1].count = 2

\* Upstream answered 201 and the tool reported the failure.
C12_WitnessOtherStatus ==
    /\ tool = "get_servicenow_incidents"
    /\ UpstreamStatus = 201
    /\ ~IsNone(resp)
    /\ resp[1].success = FALSE

(***************************************************************************)
(* C15: in server.py a call that finds the handle unset while one of       *)
(* SERVICENOW_INSTANCE_URL, SERVICENOW_USERNAME, SERVICENOW_PASSWORD is    *)
(* missing or empty raises ValueError in get_snow_connection before any    *)
(* connection object is constructed, and the handle stays unset.           *)
(***************************************************************************)
SomeCredentialMissing ==
    \E k \in {"SERVICENOW_INSTANCE_URL", "SERVICENOW_USERNAME", "SERVICENOW_PASSWORD"} :
        environ[k] = None \/ environ[k] = Some("")

C15_MissingCredentials ==
    [][(IsNone(snow_connection) /\ SomeCredentialMissing) =>
          /\ failure' = Some([type |-> "ValueError", msg |-> MissingCredentials])
          /\ IsNone(connection')
          /\ IsNone(request')
          /\ last_built' = 0
          /\ constructed' = constructed
          /\ IsNone(snow_connection')]_vars

\* A tool was called with the password empty.
C15_Witness ==
    /\ tool # ""
    /\ environ.SERVICENOW_PASSWORD = Some("")
    /\ Truthy(environ.SERVICENOW_INSTANCE_URL)
    /\ Truthy(environ.SERVICENOW_USERNAME)
    /\ failure = Some([type |-> "ValueError", msg |-> MissingCredentials])
    /\ constructed = 0
    /\ IsNone(snow_connection)

(***************************************************************************)
(* C16: a failed connection attempt leaves no state behind: a call whose   *)
(* constructor invocation raised fails with ValueError("Failed to create   *)
(* ServiceNow connection: ...") and leaves the handle unset, and every     *)
(* call that finds the handle unset with the credentials set invokes the   *)
(* constructor again, after a failed attempt as before one.                *)
(***************************************************************************)
ConstructionFailed ==
    last_built = 1 /\ IsNone(connection)

C16_FailureNotCached ==
    [][/\ ConstructionFailed' =>
              /\ ~IsNone(failure')
              /\ failure'[1].type = "ValueError"
              /\ StartsWith(failure'[1].msg, "Failed to create ServiceNow connection: ")
              /\ Len(failure'[1].msg) > 1
              /\ IsNone(snow_connection')
       /\ (IsNone(snow_connection) /\ ~SomeCredentialMissing) =>
              /\ last_built' = 1
              /\ constructed' = constructed + 1]_vars

\* The first attempt failed, the next call tried again and succeeded.
C16_Witness ==
    /\ constructed = 2
    /\ last_built = 1
    /\ ~IsNone(snow_connection)
    /\ connection = snow_connection
    /\ IsNone(failure)

\* A failed attempt, with the handle left unset.
C16_WitnessFailed ==
    /\ ConstructionFailed
    /\ constructed = 1
    /\ IsNone(snow_connection)

(***************************************************************************)
(* C17: the filter get_servicenow_incidents passes upstream holds one term *)
(* for each argument that is given and not empty, none for the others, in  *)
(* the order state=, priority=, assignment_group.name=, caller_id.email=,  *)
(* the terms joined by "&"; with no such argument the filter is None; and  *)
(* limit is passed as rows.                                                *)
(***************************************************************************)
FilterKeys ==
    <<"state=", "priority=", "assignment_group.name=", "caller_id.email=">>

FilterArg(a, i) ==
    CASE i = 1 -> a.state
      [] i = 2 -> a.priority
      [] i = 3 -> a.assignment_group
      [] i = 4 -> a.caller_id

\* Where in the filter f the term of key i starts.
TermAt(f, i) == {p \in 1..Len(f) : f[p] = FilterKeys[i]}

FilterAsClaimed(a, ep) ==
    LET given == {i \in 1..4 : FilterArg(a, i) # None /\ FilterArg(a, i) # Some("")}
        f == IF IsNone(ep) THEN <<>> ELSE ep[1]
    IN /\ IsNone(ep) <=> given = {}
       /\ \A i \in 1..4 :
             IF i \in given
             THEN /\ Cardinality(TermAt(f, i)) = 1
                  /\ \A p \in TermAt(f, i) :
                        /\ p < Len(f)
                        /\ f[p + 1] = FilterArg(a, i)[1]
             ELSE TermAt(f, i) = {}
       /\ \A i, j \in given :
             i < j => \A p \in TermAt(f, i), q \in TermAt(f, j) : p < q
       /\ given # {} => Len(f) = 3 * Cardinality(given) - 1
       /\ \A p \in 1..Len(f) : p % 3 = 0 => f[p] = "&"

C17_IncidentFilter ==
    (tool = "get_servicenow_incidents" /\ ~IsNone(request)) =>
        /\ request[1].table = "incident"
        /\ request[1].rows = arguments[1].limit
        /\ FilterAsClaimed(arguments[1], request[1].extra_params)

\* A call with state and caller given, priority absent: two terms, one "&".
C17_Witness ==
    /\ tool = "get_servicenow_incidents"
    /\ ~IsNone(request)
    /\ arguments[1].state = Some("New")
    /\ arguments[1].priority = None
    /\ arguments[1].caller_id = Some("a@b.c")
    /\ arguments[1].assignment_group = None
    /\ request[1].extra_params = Some(<<"state=", "New", "&", "caller_id.email=", "a@b.c">>)

\* A call with state = "" and nothing else: no filter.
C17_WitnessEmptyState ==
    /\ tool = "get_servicenow_incidents"
    /\ ~IsNone(request)
    /\ arguments[1].state = Some("")
    /\ request[1].extra_params = None

(***************************************************************************)
(* server_lowlevel_backup.py.  Its get_snow_connection has no try around   *)
(* the constructor (lines 50-75); its handlers answer with a               *)
(* CallToolResult holding one TextContent.                                 *)
(***************************************************************************)
lowlevel_get_snow_connection(h, env, ctor, n) ==
    IF ~IsNone(h)
    THEN [out |-> Returned(h[1]), handle |-> h, built |-> 0]
    ELSE IF ~all_credentials(env)
    THEN [out |-> Raised("ValueError", MissingCredentials), handle |-> h, built |-> 0]
    ELSE IF ctor.raised
    THEN [out |-> ctor, handle |-> None, built |-> 1]
    ELSE [out |-> Returned(n + 1), handle |-> Some(n + 1), built |-> 1]

CallToolResult(text) == [content |-> << [type |-> "text", text |-> text] >>]

\* repr() of a list, from the repr of each of its items.
ReprList(reprs) == <<"[">> \o Join(reprs, ", ") \o <<"]">>

repr_str(x) == <<"'", x, "'">>

\* repr() of an article, abbreviated to its number.
repr_article(a) == <<"{'number': '", a.number, "'}">>

low_incidents_request(a) ==
    [method |-> "get_table_with_offset", table |-> "incident",
     rows |-> IF IsNone(a.limit) THEN 20 ELSE a.limit[1],
     extra_params |-> extra_params(a)]

\* One handler: the connection, then body(up), every exception answered
\* with the text prefix \o str(e).
low_handler(h, env, n, ctor, req, body, prefix) ==
    LET c == lowlevel_get_snow_connection(h, env, ctor, n)
        res == IF c.out.raised THEN c.out ELSE body
    IN [handle |-> c.handle, built |-> c.built,
        request |-> IF c.out.raised THEN None ELSE req,
        exc |-> IF res.raised THEN Some(res.exc) ELSE None,
        out |-> IF res.raised
                THEN Returned(CallToolResult(<<prefix>> \o res.exc.msg))
                ELSE res]

handle_get_incidents(h, env, n, a, ctor, up) ==
    LET r == incidents_result(up)
    IN low_handler(h, env, n, ctor, Some(low_incidents_request(a)),
           IF r.raised THEN r
           ELSE Returned(CallToolResult(
                    <<"Retrieved ", ToString(r.value.count),
                      " ServiceNow incidents:\n\n">>
                    \o ReprList([i \in 1..Len(r.value.incidents) |->
                                   repr_str(r.value.incidents[i])]))),
           "Error retrieving incidents: ")

low_search_request(a) ==
    [method |-> "list_articles",
     limit |-> IF IsNone(a.limit) THEN 10 ELSE a.limit[1], offset |-> 0,
     query |-> a.search_term, category |-> a.category]

handle_search_knowledge_base(h, env, n, a, ctor, up) ==
    low_handler(h, env, n, ctor, Some(low_search_request(a)),
        IF up.raised THEN up
        ELSE IF ~up.value.is_dict
        THEN Raised("AttributeError", <<"'list' object has no attribute 'get'">>)
        ELSE IF ~(up.value.success = Some(TRUE))
        THEN Raised("Exception",
                    IF IsNone(up.value.message)
                    THEN <<"Failed to search knowledge base">>
                    ELSE up.value.message[1])
        ELSE LET articles == IF IsNone(up.value.articles) THEN <<>>
                             ELSE up.value.articles[1]
             IN Returned(CallToolResult(
                    <<"Found ", ToString(Len(articles)), " knowledge articles:\n\n">>
                    \o ReprList([i \in 1..Len(articles) |->
                                   repr_article(articles[i])]))),
        "Error searching knowledge base: ")

handle_get_knowledge_article(h, env, n, a, ctor, up) ==
    low_handler(h, env, n, ctor,
        IF Truthy(a.article_id) THEN Some(article_request(a.article_id[1])) ELSE None,
        IF ~Truthy(a.article_id) THEN Raised("Exception", <<"article_id is required">>)
        ELSE IF up.raised THEN up
        ELSE IF ~(up.value.success = Some(TRUE))
        THEN Raised("Exception",
                    IF IsNone(up.value.message)
                    THEN <<"Failed to retrieve knowledge article">>
                    ELSE up.value.message[1])
        ELSE Returned(CallToolResult(
                 <<"Knowledge Article ", a.article_id[1], ":\n\n">>
                 \o (IF IsNone(up.value.article) THEN <<"{}">>
                     ELSE repr_article(up.value.article[1])))),
        "Error retrieving knowledge article: ")

handle_test_connection(h, env, n, a, ctor, up) ==
    low_handler(h, env, n, ctor, Some(test_request(FALSE)),
        IF up.raised THEN up
        ELSE IF up.value.status # 200
        THEN Raised("Exception",
                    <<"Connection test failed: HTTP ", ToString(up.value.status)>>)
        ELSE Returned(CallToolResult(
                 <<"ServiceNow connection test successful!\n\nConnection Details:\n",
                   "{'instance_url': '", env.SERVICENOW_INSTANCE_URL[1],
                   "', 'username': '", env.SERVICENOW_USERNAME[1], "'}">>)),
        "ServiceNow connection test failed: ")

LowToolNames ==
    {"get_servicenow_incidents", "search_knowledge_base", "get_knowledge_article",
     "test_connection"}

\* call_tool (lines 135-155).  No handler raises, so the except clause of
\* call_tool answers nothing any handler has not answered already.
call_tool(name, h, env, n, a, ctor, up) ==
    LET r == CASE name = "get_servicenow_incidents" ->
                      handle_get_incidents(h, env, n, a, ctor, up)
               [] name = "search_knowledge_base" ->
                      handle_search_knowledge_base(h, env, n, a, ctor, up)
               [] name = "get_knowledge_article" ->
                      handle_get_knowledge_article(h, env, n, a, ctor, up)
               [] name = "test_connection" ->
                      handle_test_connection(h, env, n, a, ctor, up)
               [] OTHER ->
                      [handle |-> h, built |-> 0, request |-> None, exc |-> None,
                       out |-> Returned(CallToolResult(<<"Unknown tool: ", name>>))]
    IN IF r.out.raised
       THEN [r EXCEPT !.out = Returned(CallToolResult(<<"Error: ">> \o r.out.exc.msg))]
       ELSE r

LowArguments(name) ==
    CASE name = "get_servicenow_incidents" ->
             [state : {None, Some(""), Some("New")},
              priority : {None, Some("1")},
              assignment_group : {None, Some("Ops")},
              caller_id : {None, Some("a@b.c")},
              limit : {None, Some(5)}]
      [] name = "search_knowledge_base" ->
             [search_term : {None, Some("vpn")}, category : {None, Some("net")},
              limit : {None, Some(3)}]
      [] name = "get_knowledge_article" ->
             [article_id : {None, Some("")} \cup {Some(i) : i \in ArticleIds}]
      [] OTHER -> {[none |-> TRUE]}

LowOutcomes(name) ==
    CASE name = "get_servicenow_incidents" -> TableOutcomes
      [] name = "search_knowledge_base" -> KbOutcomes
      [] name = "get_knowledge_article" -> ArticleOutcomes
      [] OTHER -> TestOutcomes(FALSE)

LowInit ==
    /\ environ \in Environments
    /\ has_test_method \in BOOLEAN
    /\ ServerIdle
    /\ LowIdle
    /\ JwtIdle
    /\ FastIdle
    /\ OAuthIdle
    /\ PatchIdle
    /\ AdapterIdle

CallTool ==
    /\ IsNone(low_connection) => low_constructed < MaxConstructions
    /\ \E name \in LowToolNames \cup {"delete_incident"} :
       \E a \in LowArguments(name), ctor \in CtorFor(low_connection), up \in LowOutcomes(name) :
       \E r \in {call_tool(name, low_connection, environ, low_constructed,
                          a, ctor, up)} :
             /\ low_tool' = name
             /\ low_arguments' = Some(a)
             /\ low_connection' = r.handle
             /\ low_constructed' = low_constructed + r.built
             /\ low_failure' = r.exc
             /\ low_request' = r.request
             /\ low_result' = IF r.out.raised THEN None ELSE Some(r.out.value)
             /\ low_propagated' = IF r.out.raised THEN Some(r.out.exc) ELSE None
             /\ UNCHANGED <<environ, has_test_method, serverVarsRest, jwtVars,
                            fastVars, oauthVars, patchVars, adapterVars>>

LowNext == CallTool

SpecLowLevel == LowInit /\ [][LowNext]_vars

(***************************************************************************)
(* C2: error conversion is uniform across the entry points: in the         *)
(* low-level server a tool call that fails, or that names an unknown       *)
(* tool, yields a response of the shape                                    *)
(* {"success": false, "error": <message>}.                                 *)
(***************************************************************************)
HasErrorShape(d) ==
    /\ {"success", "error"} \subseteq DOMAIN d
    /\ d.success = FALSE

C2_LowLevelErrorShape ==
    (low_tool # "" /\ (~IsNone(low_failure) \/ low_tool \notin LowToolNames)) =>
        /\ ~IsNone(low_result)
        /\ HasErrorShape(low_result[1])

\* The filter of C17 in handle_get_incidents of the low-level server, where
\* an absent limit is passed as 20.
LowLevelIncidentFilter ==
    (low_tool = "get_servicenow_incidents" /\ ~IsNone(low_request)) =>
        /\ low_request[1].rows = (IF IsNone(low_arguments[1].limit) THEN 20
                                  ELSE low_arguments[1].limit[1])
        /\ FilterAsClaimed(low_arguments[1], low_request[1].extra_params)

(***************************************************************************)
(* PyJWT, as jwt_auth.py uses it.  A token is its payload and the key it   *)
(* was signed with (a token that is no JWT at all is not wellformed).      *)
(* jwt.decode verifies, in this order: the segments, the signature, exp,   *)
(* iss, aud; each failure raises its own subclass of InvalidTokenError.    *)
(* The exp claim is truncated to an integer before it is compared.         *)
(***************************************************************************)
Floor(t) == (t \div TicksPerSecond) * TicksPerSecond

jwt_encode(payload, key) == [wellformed |-> TRUE, payload |-> payload, key |-> key]

InvalidTokenErrors ==
    {"DecodeError", "InvalidSignatureError", "ExpiredSignatureError",
     "InvalidIssuerError", "InvalidAudienceError"}

pyjwt_expired(release, exp, t) ==
    IF release = "exp_le_now" THEN Floor(exp) <= t ELSE Floor(exp) < Floor(t)

jwt_decode(tok, key, audience, issuer, t, release) ==
    IF ~tok.wellformed THEN Raised("DecodeError", <<"Not enough segments">>)
    ELSE IF tok.key # key
    THEN Raised("InvalidSignatureError", <<"Signature verification failed">>)
    ELSE IF ~IsNone(tok.payload.exp) /\ pyjwt_expired(release, tok.payload.exp[1], t)
    THEN Raised("ExpiredSignatureError", <<"Signature has expired">>)
    ELSE IF tok.payload.iss # issuer
    THEN Raised("InvalidIssuerError", <<"Invalid issuer">>)
    ELSE IF tok.payload.aud # audience
    THEN Raised("InvalidAudienceError", <<"Audience doesn't match">>)
    ELSE Returned(tok.payload)

\* jwt.decode(token, options={"verify_signature": False}): no claim is verified.
jwt_decode_unverified(tok) ==
    IF ~tok.wellformed THEN Raised("DecodeError", <<"Not enough segments">>)
    ELSE Returned(tok.payload)

(***************************************************************************)
(* JWTAuthManager.  self is the configuration, t the clock.                *)
(***************************************************************************)
token_lifetime_hours_only(self, token_type) ==
    self.token_expiry_hours * SecondsPerHour * TicksPerSecond

token_lifetime(self, token_type) ==
    IF token_type = "refresh"
    THEN self.refresh_token_expiry_days * SecondsPerDay * TicksPerSecond
    ELSE self.token_expiry_hours * SecondsPerHour * TicksPerSecond

generate_token(self, user_info, token_type, t) ==
    Returned(jwt_encode(
        [iss |-> self.issuer, aud |-> self.audience, sub |-> user_info.username,
         iat |-> t, exp |-> Some(t + token_lifetime(self, token_type)),
         type |-> token_type, snow_instance |-> user_info.instance_url,
         client_id |-> user_info.client_id],
        self.secret_key))

\* bool(payload.get('exp')): a missing exp and exp = 0 are falsy.
exp_truthy(exp) == ~IsNone(exp) /\ exp[1] # 0

\* validate_token without its except clause for ExpiredSignatureError.
validate_token_expiry_unmapped(self, tok, t, release) ==
    LET d == jwt_decode(tok, self.secret_key, self.audience, self.issuer, t, release)
    IN IF d.raised
       THEN Raised("Exception", <<"Invalid JWT token: ">> \o d.exc.msg)
       ELSE IF exp_truthy(d.value.exp) /\ t > d.value.exp[1]
       THEN Raised("Exception", <<"Invalid JWT token: ", "Token has expired">>)
       ELSE d

\* validate_token calling jwt.decode without issuer=.
validate_token_issuer_unchecked(self, tok, t, release) ==
    LET d == jwt_decode(tok, self.secret_key, self.audience, tok.payload.iss, t, release)
    IN IF d.raised
       THEN IF d.exc.type = "ExpiredSignatureError"
            THEN Raised("Exception", <<"JWT token has expired">>)
            ELSE Raised("Exception", <<"Invalid JWT token: ">> \o d.exc.msg)
       ELSE d

validate_token(self, tok, t, release) ==
    LET d == jwt_decode(tok, self.secret_key, self.audience, self.issuer, t, release)
    IN IF d.raised
       THEN IF d.exc.type = "ExpiredSignatureError"
            THEN Raised("Exception", <<"JWT token has expired">>)
            ELSE IF d.exc.type \in InvalidTokenErrors
            THEN Raised("Exception", <<"Invalid JWT token: ">> \o d.exc.msg)
            ELSE Raised("Exception", <<"Failed to validate JWT token: ">> \o d.exc.msg)
       ELSE IF exp_truthy(d.value.exp) /\ t > d.value.exp[1]
       THEN Raised("Exception", <<"JWT token has expired">>)
       ELSE d

\* refresh_token without its check of the type claim.
refresh_token_any_type(self, tok, t, release) ==
    LET v == validate_token(self, tok, t, release)
    IN IF v.raised
       THEN Raised("Exception", <<"Failed to refresh token: ">> \o v.exc.msg)
       ELSE LET user_info == [username |-> v.value.sub,
                              instance_url |-> v.value.snow_instance,
                              client_id |-> v.value.client_id]
            IN Returned([access_token |-> generate_token(self, user_info, "access", t).value,
                         refresh_token |-> generate_token(self, user_info, "refresh", t).value,
                         token_type |-> "Bearer",
                         expires_in |-> self.token_expiry_hours * SecondsPerHour])

\* refresh_token building user_info without the client id.
refresh_token_drops_client_id(self, tok, t, release) ==
    LET v == validate_token(self, tok, t, release)
    IN IF v.raised
       THEN Raised("Exception", <<"Failed to refresh token: ">> \o v.exc.msg)
       ELSE IF v.value.type # "refresh"
       THEN Raised("Exception", <<"Failed to refresh token: ",
                                  "Invalid token type. Refresh token required.">>)
       ELSE LET user_info == [username |-> v.value.sub,
                              instance_url |-> v.value.snow_instance,
                              client_id |-> None]
            IN Returned([access_token |-> generate_token(self, user_info, "access", t).value,
                         refresh_token |-> generate_token(self, user_info, "refresh", t).value,
                         token_type |-> "Bearer",
                         expires_in |-> self.token_expiry_hours * SecondsPerHour])

refresh_token(self, tok, t, release) ==
    LET v == validate_token(self, tok, t, release)
    IN IF v.raised
       THEN Raised("Exception", <<"Failed to refresh token: ">> \o v.exc.msg)
       ELSE IF v.value.type # "refresh"
       THEN Raised("Exception", <<"Failed to refresh token: ",
                                  "Invalid token type. Refresh token required.">>)
       ELSE LET user_info == [username |-> v.value.sub,
                              instance_url |-> v.value.snow_instance,
                              client_id |-> v.value.client_id]
            IN Returned([access_token |-> generate_token(self, user_info, "access", t).value,
                         refresh_token |-> generate_token(self, user_info, "refresh", t).value,
                         token_type |-> "Bearer",
                         expires_in |-> self.token_expiry_hours * SecondsPerHour])

\* get_token_info comparing with <= where the code compares with <.
get_token_info_expired_at_exp(tok, t) ==
    LET d == jwt_decode_unverified(tok)
    IN IF d.raised
       THEN Raised("Exception", <<"Failed to get token info: ">> \o d.exc.msg)
       ELSE Returned(
                [username |-> d.value.sub, token_type |-> d.value.type,
                 instance_url |-> d.value.snow_instance,
                 issued_at |-> IF d.value.iat # 0 THEN Some(d.value.iat) ELSE None,
                 expires_at |-> IF exp_truthy(d.value.exp) THEN d.value.exp ELSE None,
                 is_expired |-> IF exp_truthy(d.value.exp) THEN d.value.exp[1] <= t
                                ELSE TRUE,
                 issuer |-> d.value.iss, audience |-> d.value.aud])

\* issued_at and expires_at are the timestamps the ISO strings are made of.
get_token_info(tok, t) ==
    LET d == jwt_decode_unverified(tok)
    IN IF d.raised
       THEN Raised("Exception", <<"Failed to get token info: ">> \o d.exc.msg)
       ELSE Returned(
                [username |-> d.value.sub, token_type |-> d.value.type,
                 instance_url |-> d.value.snow_instance,
                 issued_at |-> IF d.value.iat # 0 THEN Some(d.value.iat) ELSE None,
                 expires_at |-> IF exp_truthy(d.value.exp) THEN d.value.exp ELSE None,
                 is_expired |-> IF exp_truthy(d.value.exp) THEN d.value.exp[1] < t
                                ELSE TRUE,
                 issuer |-> d.value.iss, audience |-> d.value.aud])

(***************************************************************************)
(* server_fastmcp.py: the MCP tools that wrap the manager (lines 333-445). *)
(* Each returns what the manager's method did and the tool's response.     *)
(***************************************************************************)
validate_jwt_token(self, tok, t, release) ==
    LET payload == validate_token(self, tok, t, release)
        token_info == get_token_info(tok, t)
    IN IF payload.raised THEN error_response(payload.exc)
       ELSE IF token_info.raised THEN error_response(token_info.exc)
       ELSE [success |-> TRUE, message |-> <<"JWT token is valid">>,
             token_info |-> token_info.value,
             payload |-> [username |-> payload.value.sub,
                          instance_url |-> payload.value.snow_instance,
                          token_type |-> payload.value.type,
                          issuer |-> payload.value.iss,
                          audience |-> payload.value.aud]]

refresh_jwt_token(self, tok, t, release) ==
    LET new_tokens == refresh_token(self, tok, t, release)
    IN IF new_tokens.raised THEN error_response(new_tokens.exc)
       ELSE [success |-> TRUE, message |-> <<"JWT tokens refreshed successfully">>,
             tokens |-> new_tokens.value,
             usage_instructions |-> [expires_in_hours |-> self.token_expiry_hours]]

get_jwt_token_info(tok, t) ==
    LET token_info == get_token_info(tok, t)
    IN IF token_info.raised THEN error_response(token_info.exc)
       ELSE [success |-> TRUE, token_info |-> token_info.value]

(***************************************************************************)
(* The JWT manager as a state machine.  The client holds one token: one    *)
(* the manager issued, one a refresh returned, or one somebody tampered    *)
(* with.  The clock moves to the instants around the held token's expiry.  *)
(***************************************************************************)
UserInfos ==
    {[username |-> "alice", instance_url |-> Some("https://dev.service-now.com"),
      client_id |-> Some("client-1")],
     [username |-> "bob", instance_url |-> None, client_id |-> None]}

TokenTypes == {"access", "refresh", "id"}

\* What a third party can turn a token into: one signed with another key,
\* one naming another issuer or audience, one with no exp, one that is no JWT.
Tampered(tok) ==
    {[tok EXCEPT !.key = "other-key"],
     [tok EXCEPT !.payload.iss = "other-issuer"],
     [tok EXCEPT !.payload.aud = "other-audience"],
     [tok EXCEPT !.payload.exp = None],
     [tok EXCEPT !.wellformed = FALSE]} \ {tok}

AdvanceTargets(tok) ==
    IF IsNone(tok.payload.exp) THEN {}
    ELSE LET e == tok.payload.exp[1]
         IN {Floor(e) - 1, Floor(e), e, e + 1}

JwtInit ==
    /\ environ \in {[SERVICENOW_INSTANCE_URL |-> Some("set"),
                     SERVICENOW_USERNAME |-> Some("set"),
                     SERVICENOW_PASSWORD |-> Some("set")]}
    /\ has_test_method = FALSE
    /\ ServerIdle
    /\ LowIdle
    /\ FastIdle
    /\ OAuthIdle
    /\ PatchIdle
    /\ AdapterIdle
    /\ pyjwt \in PyJWTReleases
    /\ jwt_auth \in JwtConfigs
    /\ now \in TicksPerSecond..(2 * TicksPerSecond - 1)
    /\ issued = 0
    /\ token = None
    /\ origin = None
    /\ jwt_op = ""
    /\ jwt_in = None
    /\ jwt_at = 0
    /\ jwt_out = None
    /\ jwt_tool = None

JwtFrame ==
    UNCHANGED <<environ, has_test_method, serverVarsRest, lowVars, pyjwt,
                jwt_auth, fastVars, oauthVars, patchVars, adapterVars>>

\* The answer of the last operation is about the token and the instant it
\* was given: it is dropped when either changes.
JwtForget ==
    /\ jwt_op' = ""
    /\ jwt_in' = None
    /\ jwt_at' = 0
    /\ jwt_out' = None
    /\ jwt_tool' = None

GenerateToken ==
    /\ issued < MaxIssued
    /\ \E user_info \in UserInfos, token_type \in TokenTypes :
       \E r \in {generate_token(jwt_auth, user_info, token_type, now)} :
          /\ token' = Some(r.value)
          /\ origin' = Some([user_info |-> user_info, token_type |-> token_type,
                             at |-> now])
          /\ issued' = issued + 1
          /\ jwt_op' = "generate_token"
          /\ jwt_in' = None
          /\ jwt_at' = now
          /\ jwt_out' = Some(r)
          /\ jwt_tool' = None
    /\ UNCHANGED now
    /\ JwtFrame

\* A token the manager issued is replaced by a tampered copy of it.
Tamper ==
    /\ ~IsNone(token)
    /\ ~IsNone(origin)
    /\ \E tok \in Tampered(token[1]) : token' = Some(tok)
    /\ origin' = None
    /\ JwtForget
    /\ UNCHANGED <<now, issued>>
    /\ JwtFrame

Advance ==
    /\ ~IsNone(token)
    /\ \E t \in AdvanceTargets(token[1]) : t > now /\ now' = t
    /\ JwtForget
    /\ UNCHANGED <<issued, token, origin>>
    /\ JwtFrame

ValidateJwtToken ==
    /\ ~IsNone(token)
    /\ jwt_op' = "validate_jwt_token"
    /\ jwt_in' = token
    /\ jwt_at' = now
    /\ jwt_out' = Some(validate_token(jwt_auth, token[1], now, pyjwt))
    /\ jwt_tool' = Some(validate_jwt_token(jwt_auth, token[1], now, pyjwt))
    /\ UNCHANGED <<now, issued, token, origin>>
    /\ JwtFrame

RefreshJwtToken ==
    /\ ~IsNone(token)
    /\ issued < MaxIssued
    /\ \E r \in {refresh_token(jwt_auth, token[1], now, pyjwt)} :
          /\ jwt_out' = Some(r)
          /\ issued' = IF r.raised THEN issued ELSE issued + 1
    /\ jwt_op' = "refresh_jwt_token"
    /\ jwt_in' = token
    /\ jwt_at' = now
    /\ jwt_tool' = Some(refresh_jwt_token(jwt_auth, token[1], now, pyjwt))
    /\ UNCHANGED <<now, token, origin>>
    /\ JwtFrame

\* The client goes on with one of the two tokens a refresh returned.
UseRefreshed ==
    /\ jwt_op = "refresh_jwt_token"
    /\ ~jwt_out[1].raised
    /\ \E which \in {"access", "refresh"} :
          /\ token' = Some(IF which = "access" THEN jwt_out[1].value.access_token
                           ELSE jwt_out[1].value.refresh_token)
          /\ origin' = Some([user_info |->
                                 [username |-> jwt_in[1].payload.sub,
                                  instance_url |-> jwt_in[1].payload.snow_instance,
                                  client_id |-> jwt_in[1].payload.client_id],
                             token_type |-> which, at |-> jwt_at])
    /\ UNCHANGED <<now, issued, jwt_op, jwt_in, jwt_at, jwt_out, jwt_tool>>
    /\ JwtFrame

GetJwtTokenInfo ==
    /\ ~IsNone(token)
    /\ jwt_op' = "get_jwt_token_info"
    /\ jwt_in' = token
    /\ jwt_at' = now
    /\ jwt_out' = Some(get_token_info(token[1], now))
    /\ jwt_tool' = Some(get_jwt_token_info(token[1], now))
    /\ UNCHANGED <<now, issued, token, origin>>
    /\ JwtFrame

JwtNext ==
    \/ GenerateToken
    \/ Tamper
    \/ Advance
    \/ ValidateJwtToken
    \/ RefreshJwtToken
    \/ UseRefreshed
    \/ GetJwtTokenInfo

SpecJwt == JwtInit /\ [][JwtNext]_vars

(***************************************************************************)
(* What the claims about the JWT manager speak of.                         *)
(***************************************************************************)
\* The operation run last was given the token the client holds, and that
\* token is as the manager issued it.
OnIssuedToken == ~IsNone(jwt_in) /\ jwt_in = token /\ ~IsNone(origin)

\* The token given is a JWT signed with the manager's key that names the
\* manager's issuer and audience.
WellSigned(tok) ==
    /\ tok.wellformed
    /\ tok.key = jwt_auth.secret_key
    /\ tok.payload.iss = jwt_auth.issuer
    /\ tok.payload.aud = jwt_auth.audience

Expired == <<"JWT token has expired">>

(***************************************************************************)
(* C4: token round trip: validate_token, given a token generate_token      *)
(* returned and run before the token's expiry, succeeds and returns a      *)
(* payload with sub = username, snow_instance = instance_url, client_id =  *)
(* client_id, type = token_type, iss = the configured issuer and aud = the *)
(* configured audience.                                                    *)
(***************************************************************************)
C4_RoundTrip ==
    (/\ jwt_op = "validate_jwt_token"
     /\ OnIssuedToken
     /\ jwt_at < jwt_in[1].payload.exp[1]) =>
        /\ ~jwt_out[1].raised
        /\ jwt_out[1].value.sub = origin[1].user_info.username
        /\ jwt_out[1].value.snow_instance = origin[1].user_info.instance_url
        /\ jwt_out[1].value.client_id = origin[1].user_info.client_id
        /\ jwt_out[1].value.type = origin[1].token_type
        /\ jwt_out[1].value.iss = jwt_auth.issuer
        /\ jwt_out[1].value.aud = jwt_auth.audience

(***************************************************************************)
(* C5, as claimed: validate_token rejects a correctly signed token with    *)
(* matching issuer and audience exactly when the clock is greater than the *)
(* token's exp, with the message 'JWT token has expired'; a token whose    *)
(* exp equals or is later than the clock is accepted.                      *)
(***************************************************************************)
C5_ExactComparison ==
    (/\ jwt_op = "validate_jwt_token"
     /\ WellSigned(jwt_in[1])
     /\ ~IsNone(jwt_in[1].payload.exp)) =>
        /\ jwt_out[1].raised <=> jwt_at > jwt_in[1].payload.exp[1]
        /\ jwt_out[1].raised => jwt_out[1].exc.msg = Expired

(***************************************************************************)
(* C5, amended: validate_token rejects such a token, with the message      *)
(* 'JWT token has expired' and no other, whenever the clock is greater     *)
(* than exp, and accepts it whenever the clock is less than exp truncated  *)
(* to whole seconds.  From the truncated exp up to exp itself the verdict  *)
(* is PyJWT's: a release that compares int(exp) <= now rejects there, the  *)
(* instant equal to exp included.                                          *)
(***************************************************************************)
C5_ExpiryWindow ==
    (/\ jwt_op = "validate_jwt_token"
     /\ WellSigned(jwt_in[1])
     /\ ~IsNone(jwt_in[1].payload.exp)) =>
        LET exp == jwt_in[1].payload.exp[1]
        IN /\ jwt_at > exp => jwt_out[1].raised
           /\ jwt_at < Floor(exp) => ~jwt_out[1].raised
           /\ jwt_out[1].raised => jwt_out[1].exc.msg = Expired
           /\ pyjwt = "exp_le_now" => (jwt_out[1].raised <=> jwt_at >= Floor(exp))

\* A token presented at the instant equal to its exp was rejected as expired.
C5_Witness ==
    /\ jwt_op = "validate_jwt_token"
    /\ WellSigned(jwt_in[1])
    /\ jwt_in[1].payload.exp = Some(jwt_at)
    /\ jwt_out[1].raised
    /\ jwt_out[1].exc.msg = Expired

(***************************************************************************)
(* C6: for every token generate_token issues, exp - iat is                 *)
(* refresh_token_expiry_days * 86400 seconds when token_type is 'refresh'  *)
(* and token_expiry_hours * 3600 seconds for every other token_type; with  *)
(* the default configuration (24 hours, 30 days) a refresh token expires   *)
(* later than an access token issued at the same instant.                  *)
(***************************************************************************)
LifetimeAsClaimed(tok) ==
    tok.payload.exp[1] - tok.payload.iat =
        IF tok.payload.type = "refresh"
        THEN jwt_auth.refresh_token_expiry_days * 86400 * TicksPerSecond
        ELSE jwt_auth.token_expiry_hours * 3600 * TicksPerSecond

C6_Lifetimes ==
    /\ (~IsNone(token) /\ ~IsNone(origin)) => LifetimeAsClaimed(token[1])
    /\ (jwt_op = "refresh_jwt_token" /\ ~jwt_out[1].raised) =>
          /\ LifetimeAsClaimed(jwt_out[1].value.access_token)
          /\ LifetimeAsClaimed(jwt_out[1].value.refresh_token)
          /\ jwt_out[1].value.access_token.payload.iat
                = jwt_out[1].value.refresh_token.payload.iat
          /\ (jwt_auth.token_expiry_hours = 24
              /\ jwt_auth.refresh_token_expiry_days = 30) =>
                jwt_out[1].value.refresh_token.payload.exp[1]
                    > jwt_out[1].value.access_token.payload.exp[1]

\* Under the default configuration a refresh issued both tokens at one instant.
C6_Witness ==
    /\ jwt_op = "refresh_jwt_token"
    /\ ~jwt_out[1].raised
    /\ jwt_auth = DefaultConfig
    /\ jwt_out[1].value.refresh_token.payload.exp[1]
          - jwt_out[1].value.access_token.payload.exp[1]
          = (30 * 86400 - 24 * 3600) * TicksPerSecond

(***************************************************************************)
(* C7: refresh_token issues new tokens only for a valid token whose type   *)
(* claim is 'refresh': given a valid access token, an expired token or a   *)
(* badly signed token it raises an exception whose message starts with     *)
(* 'Failed to refresh token:' and returns no token, and the                *)
(* refresh_jwt_token tool then returns success = false.                    *)
(***************************************************************************)
Refused(tok, at) ==
    \/ ~tok.wellformed
    \/ tok.key # jwt_auth.secret_key
    \/ tok.payload.type # "refresh"
    \/ (~IsNone(tok.payload.exp) /\ at > tok.payload.exp[1])

C7_RefreshOnlyForRefresh ==
    jwt_op = "refresh_jwt_token" =>
        /\ Refused(jwt_in[1], jwt_at) => jwt_out[1].raised
        /\ jwt_out[1].raised =>
              /\ StartsWith(jwt_out[1].exc.msg, "Failed to refresh token: ")
              /\ jwt_tool[1] = [success |-> FALSE, error |-> jwt_out[1].exc.msg]
        /\ ~jwt_out[1].raised => jwt_tool[1].success

\* A valid access token was presented for a refresh and refused.
C7_Witness ==
    /\ jwt_op = "refresh_jwt_token"
    /\ OnIssuedToken
    /\ origin[1].token_type = "access"
    /\ jwt_at < Floor(jwt_in[1].payload.exp[1])
    /\ jwt_out[1].raised
    /\ jwt_tool[1].success = FALSE

C7_WitnessExpired ==
    /\ jwt_op = "refresh_jwt_token"
    /\ OnIssuedToken
    /\ origin[1].token_type = "refresh"
    /\ jwt_at > jwt_in[1].payload.exp[1]
    /\ jwt_out[1].raised

C7_WitnessBadSignature ==
    /\ jwt_op = "refresh_jwt_token"
    /\ jwt_in[1].key # jwt_auth.secret_key
    /\ jwt_in[1].payload.type = "refresh"
    /\ jwt_out[1].raised

(***************************************************************************)
(* C8: a successful refresh_token returns a new access token and a new     *)
(* refresh token that carry the sub, snow_instance and client_id of the    *)
(* refresh token presented, with token_type 'Bearer' and expires_in =      *)
(* token_expiry_hours * 3600; the new access token has type 'access' and   *)
(* the new refresh token type 'refresh'.                                   *)
(***************************************************************************)
SameSubject(new, old) ==
    /\ new.payload.sub = old.payload.sub
    /\ new.payload.snow_instance = old.payload.snow_instance
    /\ new.payload.client_id = old.payload.client_id

C8_RefreshResult ==
    (jwt_op = "refresh_jwt_token" /\ ~jwt_out[1].raised) =>
        LET r == jwt_out[1].value
        IN /\ SameSubject(r.access_token, jwt_in[1])
           /\ SameSubject(r.refresh_token, jwt_in[1])
           /\ r.access_token.payload.type = "access"
           /\ r.refresh_token.payload.type = "refresh"
           /\ r.token_type = "Bearer"
           /\ r.expires_in = jwt_auth.token_expiry_hours * 3600
           /\ jwt_tool[1].tokens = r

\* A refresh token issued for a user with a client id was refreshed.
C8_Witness ==
    /\ jwt_op = "refresh_jwt_token"
    /\ ~jwt_out[1].raised
    /\ jwt_in[1].payload.client_id = Some("client-1")
    /\ jwt_out[1].value.access_token.payload.sub = "alice"

(***************************************************************************)
(* C9: get_token_info returns the details of a token without validating    *)
(* it: it succeeds for a well-formed token that is expired, signed with    *)
(* another key or naming another issuer or audience, and reports           *)
(* is_expired = true exactly when the token's exp is earlier than the      *)
(* clock or the token has no exp.                                          *)
(***************************************************************************)
C9_InfoWithoutValidation ==
    (jwt_op = "get_jwt_token_info" /\ jwt_in[1].wellformed) =>
        /\ ~jwt_out[1].raised
        /\ jwt_out[1].value.is_expired <=>
              \/ IsNone(jwt_in[1].payload.exp)
              \/ jwt_in[1].payload.exp[1] < jwt_at
        /\ jwt_tool[1] = [success |-> TRUE, token_info |-> jwt_out[1].value]

\* The details of an expired token signed with another key were returned.
C9_Witness ==
    /\ jwt_op = "get_jwt_token_info"
    /\ jwt_in[1].key # jwt_auth.secret_key
    /\ jwt_in[1].payload.exp[1] < jwt_at
    /\ ~jwt_out[1].raised
    /\ jwt_out[1].value.is_expired

C9_WitnessAtExp ==
    /\ jwt_op = "get_jwt_token_info"
    /\ jwt_in[1].payload.exp = Some(jwt_at)
    /\ ~jwt_out[1].value.is_expired

(***************************************************************************)
(* C10, as claimed: validate_token returns no payload for a token signed   *)
(* with another key or naming another issuer or audience: each such token  *)
(* raises an exception whose message starts with 'Invalid JWT token:'.     *)
(***************************************************************************)
Foreign(tok) ==
    \/ tok.key # jwt_auth.secret_key
    \/ tok.payload.iss # jwt_auth.issuer
    \/ tok.payload.aud # jwt_auth.audience

C10_InvalidMessage ==
    (jwt_op = "validate_jwt_token" /\ Foreign(jwt_in[1])) =>
        /\ jwt_out[1].raised
        /\ StartsWith(jwt_out[1].exc.msg, "Invalid JWT token: ")

(***************************************************************************)
(* C10, amended: validate_token returns no payload for such a token and    *)
(* the validate_jwt_token tool returns success = false.  The message       *)
(* starts with 'Invalid JWT token:' when the token is signed with another  *)
(* key or is presented before its exp truncated to whole seconds; a token  *)
(* signed with the manager's key that is presented later can be rejected   *)
(* as 'JWT token has expired' instead, the expiry being checked before the *)
(* issuer and the audience.                                                *)
(***************************************************************************)
C10_ForeignTokenRejected ==
    (jwt_op = "validate_jwt_token" /\ Foreign(jwt_in[1])) =>
        LET tok == jwt_in[1]
            late == ~IsNone(tok.payload.exp) /\ jwt_at >= Floor(tok.payload.exp[1])
        IN /\ jwt_out[1].raised
           /\ jwt_tool[1] = [success |-> FALSE, error |-> jwt_out[1].exc.msg]
           /\ (tok.key # jwt_auth.secret_key \/ ~late) =>
                 StartsWith(jwt_out[1].exc.msg, "Invalid JWT token: ")
           /\ \/ StartsWith(jwt_out[1].exc.msg, "Invalid JWT token: ")
              \/ jwt_out[1].exc.msg = Expired

\* A token naming another issuer, signed with the manager's key, was rejected.
C10_Witness ==
    /\ jwt_op = "validate_jwt_token"
    /\ jwt_in[1].wellformed
    /\ jwt_in[1].key = jwt_auth.secret_key
    /\ jwt_in[1].payload.iss # jwt_auth.issuer
    /\ jwt_out[1].raised
    /\ jwt_out[1].exc.msg = <<"Invalid JWT token: ", "Invalid issuer">>

(***************************************************************************)
(* C18: introspection and validation agree on expiry: for a token signed   *)
(* with the manager's key that names its issuer and audience, and at every *)
(* clock value, the instant equal to exp included, get_token_info reports  *)
(* is_expired = false exactly when validate_token accepts the token.       *)
(***************************************************************************)
C18_InfoAgreesWithValidation ==
    (/\ ~IsNone(token)
     /\ WellSigned(token[1])
     /\ ~IsNone(token[1].payload.exp)) =>
        LET info == get_token_info(token[1], now)
            checked == validate_token(jwt_auth, token[1], now, pyjwt)
        IN /\ ~info.raised
           /\ info.value.is_expired = FALSE <=> ~checked.raised

(***************************************************************************)
(* server_fastmcp.py.  get_snow_connection (lines 46-104) reads the name   *)
(* access_token at line 56.  The line that would read it from the          *)
(* environment (line 54) is a comment, and the assignment                  *)
(* "access_token = None" of line 80 makes the name local to the function:  *)
(* a call that finds the handle unset raises UnboundLocalError at line 56, *)
(* before the JWT branch (57-80) and the username/password branch (82-102) *)
(* are reached.                                                            *)
(***************************************************************************)
UnboundAccessToken ==
    Raised("UnboundLocalError",
           <<"cannot access local variable 'access_token' where it is not associated with a value">>)

fastmcp_get_snow_connection(h, env, ctor, n) ==
    IF ~IsNone(h)
    THEN [out |-> Returned(h[1]), handle |-> h, built |-> 0]
    ELSE [out |-> UnboundAccessToken, handle |-> None, built |-> 0]

\* A tool of server_fastmcp.py: the connection, then the body, every
\* exception answered with {"success": False, "error": str(e)}.
fastmcp_tool(h, env, n, ctor, req, body) ==
    LET c == fastmcp_get_snow_connection(h, env, ctor, n)
        res == IF c.out.raised THEN c.out ELSE body
    IN [handle |-> c.handle, built |-> c.built,
        request |-> IF c.out.raised THEN None ELSE Some(req),
        exc |-> IF res.raised THEN Some(res.exc) ELSE None,
        out |-> IF res.raised THEN Returned(error_response(res.exc)) ELSE res]

\* Lines 130-174: the body is that of server.py's tool.
fastmcp_get_servicenow_incidents(h, env, n, a, ctor, up) ==
    fastmcp_tool(h, env, n, ctor, incidents_request(a), incidents_result(up))

\* Lines 193-233.
fastmcp_search_knowledge_base(h, env, n, a, ctor, up) ==
    fastmcp_tool(h, env, n, ctor, search_request(a),
        IF up.raised THEN up
        ELSE IF ~up.value.is_dict
        THEN Raised("AttributeError", <<"'list' object has no attribute 'get'">>)
        ELSE IF ~(up.value.success = Some(TRUE))
        THEN Raised("Exception",
                    IF IsNone(up.value.message)
                    THEN <<"Failed to search knowledge base">>
                    ELSE up.value.message[1])
        ELSE LET articles == IF IsNone(up.value.articles) THEN <<>>
                             ELSE up.value.articles[1]
             IN Returned([success |-> TRUE, count |-> Len(articles),
                          articles |-> articles]))

\* Lines 246-272.  An absent "article" is passed on as the empty dict, here
\* None.
fastmcp_get_knowledge_article(h, env, n, article_id, ctor, up) ==
    fastmcp_tool(h, env, n, ctor, article_request(article_id),
        IF up.raised THEN up
        ELSE IF ~(up.value.success = Some(TRUE))
        THEN Raised("Exception",
                    IF IsNone(up.value.message)
                    THEN <<"Failed to retrieve knowledge article">>
                    ELSE up.value.message[1])
        ELSE Returned([success |-> TRUE, article |-> up.value.article]))

\* Lines 455-486.
fastmcp_test_connection(h, env, n, ctor, up) ==
    fastmcp_tool(h, env, n, ctor, test_request(FALSE), test_result(FALSE, env, up))

FastInit ==
    /\ environ \in Environments
    /\ has_test_method = FALSE
    /\ ServerIdle
    /\ LowIdle
    /\ JwtIdle
    /\ FastIdle
    /\ OAuthIdle
    /\ PatchIdle
    /\ AdapterIdle

FastCanCall == IsNone(fast_connection) => fast_constructed < MaxConstructions

FastCall(name, r) ==
    /\ fast_tool' = name
    /\ fast_connection' = r.handle
    /\ fast_constructed' = fast_constructed + r.built
    /\ fast_failure' = r.exc
    /\ fast_request' = r.request
    /\ fast_resp' = IF r.out.raised THEN None ELSE Some(r.out.value)
    /\ UNCHANGED <<environ, has_test_method, serverVarsRest, lowVars, jwtVars,
                   oauthVars, patchVars, adapterVars>>

FastGetServicenowIncidents ==
    /\ FastCanCall
    /\ \E a \in IncidentArgs, ctor \in CtorFor(fast_connection), up \in TableOutcomes :
       \E r \in {fastmcp_get_servicenow_incidents(fast_connection, environ,
                                                 fast_constructed, a, ctor, up)} :
          FastCall("get_servicenow_incidents", r)

FastSearchKnowledgeBase ==
    /\ FastCanCall
    /\ \E a \in SearchArgs, ctor \in CtorFor(fast_connection), up \in KbOutcomes :
       \E r \in {fastmcp_search_knowledge_base(fast_connection, environ,
                                              fast_constructed, a, ctor, up)} :
          FastCall("search_knowledge_base", r)

FastGetKnowledgeArticle ==
    /\ FastCanCall
    /\ \E id \in ArticleIds, ctor \in CtorFor(fast_connection), up \in ArticleOutcomes :
       \E r \in {fastmcp_get_knowledge_article(fast_connection, environ,
                                              fast_constructed, id, ctor, up)} :
          FastCall("get_knowledge_article", r)

FastTestConnection ==
    /\ FastCanCall
    /\ \E ctor \in CtorFor(fast_connection), up \in TestOutcomes(FALSE) :
       \E r \in {fastmcp_test_connection(fast_connection, environ,
                                        fast_constructed, ctor, up)} :
          FastCall("test_connection", r)

FastNext ==
    \/ FastGetServicenowIncidents
    \/ FastSearchKnowledgeBase
    \/ FastGetKnowledgeArticle
    \/ FastTestConnection

SpecFastmcp == FastInit /\ [][FastNext]_vars

(***************************************************************************)
(* C11: in server_fastmcp.py get_snow_connection falls back to             *)
(* username/password authentication: a call made with no access token      *)
(* available creates a connection when SERVICENOW_INSTANCE_URL,            *)
(* SERVICENOW_USERNAME and SERVICENOW_PASSWORD are all set, and raises     *)
(* ValueError when one of them is missing.                                 *)
(***************************************************************************)
C11_PasswordFallback ==
    fast_tool # "" =>
        IF all_credentials(environ)
        THEN fast_constructed >= 1
        ELSE /\ ~IsNone(fast_failure)
             /\ fast_failure[1].type = "ValueError"

(***************************************************************************)
(* godaddy_oauth_example.py.  The script generates state at import (line   *)
(* 15), get_authorization_code opens the browser and serves exactly one    *)
(* request on localhost:8080 (lines 49-76), do_GET (lines 18-42) stores    *)
(* the code of a callback whose state matches, and the main block          *)
(* exchanges the code when there is one (lines 102-120).                   *)
(*                                                                         *)
(* The query of the request is the sequence of its key=value pairs.        *)
(***************************************************************************)
MaxParams == 2

OAuthStates == {"s1", "s2"}

QueryPairs ==
    {[k |-> "state", v |-> "s1"], [k |-> "state", v |-> "s2"],
     [k |-> "state", v |-> ""], [k |-> "code", v |-> "c1"],
     [k |-> "code", v |-> ""]}

RawQueries == UNION {[1..n -> QueryPairs] : n \in 0..MaxParams}

RECURSIVE QueryValues(_, _)
\* urllib.parse.parse_qs(query)[key]: the values given for key, in order,
\* blank values dropped; the key is in the dict when the list is not empty.
QueryValues(q, key) ==
    IF Len(q) = 0 THEN <<>>
    ELSE (IF q[1].k = key /\ q[1].v # "" THEN <<q[1].v>> ELSE <<>>)
         \o QueryValues(Tail(q), key)

do_GET_state_unchecked(code, state, q, written) ==
    IF ~written THEN code
    ELSE IF Len(QueryValues(q, "code")) > 0
    THEN Some(QueryValues(q, "code")[1])
    ELSE code

\* RequestHandler.do_GET: the value of the global code after the handler.
\* written is whether the response could be written to the browser (an
\* exception of wfile.write ends the handler; the server logs it).
do_GET(code, state, q, written) ==
    IF ~written THEN code
    ELSE IF Len(QueryValues(q, "state")) = 0 \/ QueryValues(q, "state")[1] # state
    THEN code
    ELSE IF Len(QueryValues(q, "code")) > 0
    THEN Some(QueryValues(q, "code")[1])
    ELSE code

\* What requests.post(token_url, ...) can do.
TokenResponses ==
    {Raised("ConnectionError", <<"timed out">>),
     Returned([status_code |-> 200, access_token |-> Some("at-1")]),
     Returned([status_code |-> 200, access_token |-> None]),
     Returned([status_code |-> 400, access_token |-> None])}

\* exchange_code_for_token (lines 79-99).
exchange_code_for_token(auth_code, post) ==
    IF post.raised THEN post
    ELSE IF post.value.status_code = 200
    THEN IF IsNone(post.value.access_token)
         THEN Raised("TypeError", <<"'NoneType' object is not subscriptable">>)
         ELSE Returned(Some([access_token |-> post.value.access_token[1]]))
    ELSE Returned(None)

OAuthInit ==
    /\ environ \in {[SERVICENOW_INSTANCE_URL |-> Some("set"),
                     SERVICENOW_USERNAME |-> Some("set"),
                     SERVICENOW_PASSWORD |-> Some("set")]}
    /\ has_test_method = FALSE
    /\ ServerIdle
    /\ LowIdle
    /\ JwtIdle
    /\ FastIdle
    /\ PatchIdle
    /\ AdapterIdle
    /\ oauth_pc = "main"
    /\ oauth_state \in OAuthStates
    /\ oauth_code = None
    /\ oauth_callback = None
    /\ oauth_exchanged = None
    /\ oauth_token_data = None

OAuthFrame ==
    UNCHANGED <<serverVars, lowVars, jwtVars, fastVars, patchVars, adapterVars,
                oauth_state>>

\* get_authorization_code up to server.handle_request(): the browser is
\* opened and the local server bound; binding the port can fail.
OAuthListen ==
    /\ oauth_pc = "main"
    /\ \E bound \in BOOLEAN :
          oauth_pc' = IF bound THEN "listening" ELSE "crashed"
    /\ UNCHANGED <<oauth_code, oauth_callback, oauth_exchanged, oauth_token_data>>
    /\ OAuthFrame

\* server.handle_request(): the one request, whatever it is; then
\* server_close() and return code.
OAuthHandleRequest ==
    /\ oauth_pc = "listening"
    /\ \E method \in {"GET", "POST"}, q \in RawQueries, written \in BOOLEAN :
          /\ oauth_callback' = Some([method |-> method, query |-> q,
                                     written |-> written])
          /\ oauth_code' = IF method = "GET"
                           THEN do_GET(oauth_code, oauth_state, q, written)
                           ELSE oauth_code
    /\ oauth_pc' = "returned"
    /\ UNCHANGED <<oauth_exchanged, oauth_token_data>>
    /\ OAuthFrame

\* Main block, "if auth_code:" taken.
OAuthExchange ==
    /\ oauth_pc = "returned"
    /\ Truthy(oauth_code)
    /\ \E post \in TokenResponses :
       \E r \in {exchange_code_for_token(oauth_code[1], post)} :
          /\ oauth_exchanged' = oauth_code
          /\ oauth_token_data' = IF r.raised THEN None ELSE r.value
          /\ oauth_pc' = IF r.raised THEN "crashed" ELSE "done"
    /\ UNCHANGED <<oauth_code, oauth_callback>>
    /\ OAuthFrame

\* Main block, "Failed to get authorization code".
OAuthNoCode ==
    /\ oauth_pc = "returned"
    /\ ~Truthy(oauth_code)
    /\ oauth_pc' = "done"
    /\ UNCHANGED <<oauth_code, oauth_callback, oauth_exchanged, oauth_token_data>>
    /\ OAuthFrame

OAuthNext ==
    \/ OAuthListen
    \/ OAuthHandleRequest
    \/ OAuthExchange
    \/ OAuthNoCode

SpecOAuth == OAuthInit /\ [][OAuthNext]_vars

(***************************************************************************)
(* C13: in the OAuth example the authorization code is accepted only from  *)
(* a callback whose state parameter equals the state generated for this    *)
(* run: a callback with no state or with another state leaves code unset;  *)
(* and exchange_code_for_token is called only with an accepted code, never *)
(* before the one callback request has been handled.                       *)
(***************************************************************************)
HasParam(q, key, value) == \E i \in 1..Len(q) : q[i] = [k |-> key, v |-> value]

C13_StateChecked ==
    /\ ~IsNone(oauth_code) =>
          /\ ~IsNone(oauth_callback)
          /\ oauth_callback[1].method = "GET"
          /\ HasParam(oauth_callback[1].query, "state", oauth_state)
          /\ HasParam(oauth_callback[1].query, "code", oauth_code[1])
    /\ (~IsNone(oauth_callback)
        /\ ~HasParam(oauth_callback[1].query, "state", oauth_state)) =>
          IsNone(oauth_code)
    /\ ~IsNone(oauth_exchanged) =>
          /\ ~IsNone(oauth_callback)
          /\ ~IsNone(oauth_code)
          /\ oauth_exchanged = oauth_code
          /\ oauth_pc \in {"done", "crashed"}
    /\ oauth_pc \in {"main", "listening"} =>
          /\ IsNone(oauth_code)
          /\ IsNone(oauth_exchanged)

\* The callback carried this run's state and a code, and the code was
\* exchanged.
C13_Witness ==
    /\ oauth_pc = "done"
    /\ oauth_exchanged = Some("c1")
    /\ HasParam(oauth_callback[1].query, "state", oauth_state)
    /\ ~IsNone(oauth_token_data)

\* A callback with a code and another run's state: nothing was exchanged.
C13_WitnessForeignState ==
    /\ oauth_pc = "done"
    /\ oauth_callback[1].method = "GET"
    /\ oauth_callback[1].written
    /\ HasParam(oauth_callback[1].query, "code", "c1")
    /\ Len(QueryValues(oauth_callback[1].query, "state")) = 1
    /\ ~HasParam(oauth_callback[1].query, "state", oauth_state)
    /\ IsNone(oauth_code)
    /\ IsNone(oauth_exchanged)

(***************************************************************************)
(* urllib3_patch_final.py.  The file observability_snow.py is the sequence *)
(* of its lines (content.split('\n'), so never empty); None is a file that *)
(* does not exist.  The lines are drawn from the few kinds the two         *)
(* functions tell apart; the text of the patch (lines 38-113) is           *)
(* abbreviated to its first lines, its last function and the empty lines   *)
(* it starts and ends with.                                                *)
(***************************************************************************)
MaxLines == 3

MaxPatchOps == 2

PatchMarker == "# urllib3_patch_applied - httpx compatibility patch"

SourceLines ==
    {"import requests", "import httpx", "class ObservabilityServiceNow:",
     "        self._session = requests", "        self.url = url", "",
     PatchMarker}

FileContents == UNION {[1..n -> SourceLines] : n \in 1..MaxLines}

\* patch_content.split('\n')
PatchLines ==
    <<"", PatchMarker, "import httpx", "class HttpxAdapter:",
      "def patch_observability_snow():", "    pass", "">>

\* line.strip()
Strip(l) ==
    CASE l = "        self._session = requests" -> "self._session = requests"
      [] l = "        self._session = HttpxAdapter()" -> "self._session = HttpxAdapter()"
      [] l = "        self.url = url" -> "self.url = url"
      [] l = "    pass" -> "pass"
      [] OTHER -> l

\* line.strip().startswith(('import ', 'from ')) and not
\* line.strip().startswith('#')
IsImportLine(l) == Strip(l) \in {"import requests", "import httpx"}

\* "httpx" in line, "urllib3_patch_applied" in line
HasHttpx(l) == l \in {"import httpx", PatchMarker}

HasMarker(l) == l = PatchMarker

\* line.replace('self._session = requests', 'self._session = HttpxAdapter()')
ReplaceSession(l) ==
    IF l = "        self._session = requests"
    THEN "        self._session = HttpxAdapter()"
    ELSE l

\* The index after the last import statement (0 when there is none).
InsertIndex(lines) ==
    LET imports == {i \in 1..Len(lines) : IsImportLine(lines[i])}
    IN IF imports = {} THEN 0
       ELSE CHOOSE i \in imports : \A j \in imports : j <= i

\* apply_urllib3_patch: what it returns and the file after it.
apply_urllib3_patch(file) ==
    IF IsNone(file) THEN [returned |-> FALSE, file |-> file]
    ELSE LET lines == file[1]
         IN IF (\E i \in 1..Len(lines) : HasHttpx(lines[i]))
               /\ (\E i \in 1..Len(lines) : HasMarker(lines[i]))
            THEN [returned |-> TRUE, file |-> file]
            ELSE LET at == InsertIndex(lines)
                     inserted == SubSeq(lines, 1, at) \o PatchLines
                                 \o SubSeq(lines, at + 1, Len(lines))
                 IN [returned |-> TRUE,
                     file |-> Some([i \in 1..Len(inserted) |->
                                       ReplaceSession(inserted[i])])]

RECURSIVE FilterLines(_, _)
\* The loop of lines 174-194: the lines kept, skip_lines being skip.
FilterLines(lines, skip) ==
    IF Len(lines) = 0 THEN <<>>
    ELSE LET line == lines[1]
             rest == Tail(lines)
         IN IF Strip(line) = PatchMarker THEN FilterLines(rest, TRUE)
            ELSE IF skip /\ Strip(line) = "def patch_observability_snow():"
            THEN FilterLines(rest, skip)
            ELSE IF skip /\ Strip(line) = "self._session = HttpxAdapter()"
            THEN <<"        self._session = requests">> \o FilterLines(rest, FALSE)
            ELSE IF skip /\ Strip(line) = "def revert_urllib3_patch():"
            THEN FilterLines(rest, FALSE)
            ELSE IF ~skip THEN <<line>> \o FilterLines(rest, skip)
            ELSE FilterLines(rest, skip)

\* '\n'.join(filtered_lines).split('\n'): no line left is the empty string,
\* one empty line.
Rejoined(lines) == IF Len(lines) = 0 THEN <<"">> ELSE lines

\* revert_urllib3_patch: what it returns and the file after it.
revert_urllib3_patch(file) ==
    IF IsNone(file) THEN [returned |-> FALSE, file |-> file]
    ELSE IF ~(\E i \in 1..Len(file[1]) : HasMarker(file[1][i]))
    THEN [returned |-> TRUE, file |-> file]
    ELSE [returned |-> TRUE, file |-> Some(Rejoined(FilterLines(file[1], FALSE)))]

PatchInit ==
    /\ environ \in {[SERVICENOW_INSTANCE_URL |-> Some("set"),
                     SERVICENOW_USERNAME |-> Some("set"),
                     SERVICENOW_PASSWORD |-> Some("set")]}
    /\ has_test_method = FALSE
    /\ ServerIdle
    /\ LowIdle
    /\ JwtIdle
    /\ FastIdle
    /\ OAuthIdle
    /\ AdapterIdle
    /\ patch_file \in {None} \cup {Some(c) : c \in FileContents}
    /\ patch_original = patch_file
    /\ patch_history = <<>>
    /\ patch_returned = None

PatchFrame ==
    UNCHANGED <<serverVars, lowVars, jwtVars, fastVars, oauthVars, adapterVars,
                patch_original>>

ApplyUrllib3Patch ==
    /\ Len(patch_history) < MaxPatchOps
    /\ \E r \in {apply_urllib3_patch(patch_file)} :
          /\ patch_file' = r.file
          /\ patch_returned' = Some(r.returned)
    /\ patch_history' = Append(patch_history, "apply")
    /\ PatchFrame

RevertUrllib3Patch ==
    /\ Len(patch_history) < MaxPatchOps
    /\ \E r \in {revert_urllib3_patch(patch_file)} :
          /\ patch_file' = r.file
          /\ patch_returned' = Some(r.returned)
    /\ patch_history' = Append(patch_history, "revert")
    /\ PatchFrame

PatchNext ==
    \/ ApplyUrllib3Patch
    \/ RevertUrllib3Patch

SpecPatch == PatchInit /\ [][PatchNext]_vars

(***************************************************************************)
(* C14: revert_urllib3_patch restores the original file: whatever          *)
(* observability_snow.py held, after apply_urllib3_patch followed by       *)
(* revert_urllib3_patch it holds the same content again.                   *)
(***************************************************************************)
C14_RevertRestores ==
    (patch_history = <<"apply", "revert">> /\ ~IsNone(patch_original)) =>
        patch_file = patch_original

(***************************************************************************)
(* HttpxRequestsAdapter of urllib3_monkey_patch_comprehensive.py (the same *)
(* class, line for line, is in urllib3_monkey_patch.py).  What             *)
(* self.client.<method> and requests.<method> do is an input of each call: *)
(* either raises, or returns a response.  An attempt is one call of a      *)
(* transport; redirects a transport follows on its own are inside it.      *)
(***************************************************************************)
MaxAdapterCalls == 2

AdapterUrls == {"https://snow/api/now/table/incident", "https://snow/oauth_token.do"}

\* The method's own keyword argument (data, params, json), given or None.
AdapterPayloads == {None, Some("payload")}

AdapterArguments == [url : AdapterUrls, payload : AdapterPayloads]

HttpResponses == [status_code : {200, 302, 404, 500}, text : {"body"}]

\* What self.client.<method>(...) can do while the client is open.
HttpxOutcomes ==
    {Returned(r) : r \in HttpResponses}
    \cup {Raised("ConnectError", <<"All connection attempts failed">>),
          Raised("TypeError", <<"unexpected keyword argument">>)}

\* httpx refuses to send through a client that was closed.
HttpxClosed ==
    Raised("RuntimeError",
           <<"Cannot send a request, as the client has been closed.">>)

\* What requests.<method>(...) can do.
RequestsOutcomes ==
    {Returned([kind |-> "requests.Response", status_code |-> s, text |-> "body"]) :
        s \in {200, 503}}
    \cup {Raised("ConnectionError", <<"Max retries exceeded">>)}

\* HttpxResponse.__init__
HttpxResponse(r) ==
    [kind |-> "HttpxResponse", status_code |-> r.status_code, text |-> r.text]

httpx_then_requests_on_bad_status(method, keyword, args, hx, rq) ==
    LET first == [transport |-> "httpx", method |-> method, keyword |-> keyword,
                  args |-> args, outcome |-> hx]
        second == [transport |-> "requests", method |-> method, keyword |-> keyword,
                   args |-> args, outcome |-> rq]
    IN IF ~hx.raised /\ hx.value.status_code \in 200..299
       THEN [attempts |-> <<first>>, out |-> Returned(HttpxResponse(hx.value))]
       ELSE [attempts |-> <<first, second>>, out |-> rq]

\* The body the four methods share: try self.client.<method>, wrap what it
\* returns; except Exception: return requests.<method> with the same
\* arguments.  hx and rq are what the two transports do when called.
httpx_then_requests(method, keyword, args, hx, rq) ==
    LET first == [transport |-> "httpx", method |-> method, keyword |-> keyword,
                  args |-> args, outcome |-> hx]
        second == [transport |-> "requests", method |-> method, keyword |-> keyword,
                   args |-> args, outcome |-> rq]
    IN IF ~hx.raised
       THEN [attempts |-> <<first>>, out |-> Returned(HttpxResponse(hx.value))]
       ELSE [attempts |-> <<first, second>>, out |-> rq]

post(args, hx, rq) == httpx_then_requests("post", "data", args, hx, rq)

get(args, hx, rq) == httpx_then_requests("get", "params", args, hx, rq)

put(args, hx, rq) == httpx_then_requests("put", "json", args, hx, rq)

\* delete takes no payload keyword
delete(args, hx, rq) ==
    httpx_then_requests("delete", "", [args EXCEPT !.payload = None], hx, rq)

AdapterInit ==
    /\ environ \in {[SERVICENOW_INSTANCE_URL |-> Some("set"),
                     SERVICENOW_USERNAME |-> Some("set"),
                     SERVICENOW_PASSWORD |-> Some("set")]}
    /\ has_test_method = FALSE
    /\ ServerIdle
    /\ LowIdle
    /\ JwtIdle
    /\ FastIdle
    /\ OAuthIdle
    /\ PatchIdle
    /\ AdapterIdle

AdapterFrame ==
    UNCHANGED <<serverVars, lowVars, jwtVars, fastVars, oauthVars, patchVars>>

\* One call of a method: r is what the method did.
AdapterCall(method, args, r) ==
    /\ adapter_calls' = adapter_calls + 1
    /\ adapter_method' = method
    /\ adapter_args' = Some(args)
    /\ adapter_attempts' = r.attempts
    /\ adapter_out' = Some(r.out)
    /\ UNCHANGED adapter_closed
    /\ AdapterFrame

\* What the httpx client can do now.
HttpxNow == IF adapter_closed THEN {HttpxClosed} ELSE HttpxOutcomes

AdapterPost ==
    /\ adapter_calls < MaxAdapterCalls
    /\ \E args \in AdapterArguments, hx \in HttpxNow, rq \in RequestsOutcomes :
          AdapterCall("post", args, post(args, hx, rq))

AdapterGet ==
    /\ adapter_calls < MaxAdapterCalls
    /\ \E args \in AdapterArguments, hx \in HttpxNow, rq \in RequestsOutcomes :
          AdapterCall("get", args, get(args, hx, rq))

AdapterPut ==
    /\ adapter_calls < MaxAdapterCalls
    /\ \E args \in AdapterArguments, hx \in HttpxNow, rq \in RequestsOutcomes :
          AdapterCall("put", args, put(args, hx, rq))

AdapterDelete ==
    /\ adapter_calls < MaxAdapterCalls
    /\ \E args \in AdapterArguments, hx \in HttpxNow, rq \in RequestsOutcomes :
          AdapterCall("delete", args, delete(args, hx, rq))

\* close(): closes the httpx client.
AdapterClose ==
    /\ ~adapter_closed
    /\ adapter_closed' = TRUE
    /\ UNCHANGED <<adapter_calls, adapter_method, adapter_args, adapter_attempts,
                   adapter_out>>
    /\ AdapterFrame

AdapterNext ==
    \/ AdapterPost
    \/ AdapterGet
    \/ AdapterPut
    \/ AdapterDelete
    \/ AdapterClose

SpecAdapter == AdapterInit /\ [][AdapterNext]_vars

(***************************************************************************)
(* C19: each call of post, get, put or delete attempts the request through *)
(* httpx first and through requests second, the second only when the httpx *)
(* attempt raised; it never makes more than two attempts; whatever httpx   *)
(* returns, a non-2xx response included, is returned wrapped with no       *)
(* second attempt; and what the second attempt does, an exception          *)
(* included, is what the caller gets.                                      *)
(***************************************************************************)
C19_HttpxThenRequests ==
    adapter_method # "" =>
        LET n == Len(adapter_attempts)
        IN /\ n \in {1, 2}
           /\ adapter_attempts[1].transport = "httpx"
           /\ \A i \in 1..n :
                 /\ adapter_attempts[i].method = adapter_method
                 /\ adapter_attempts[i].args.url = adapter_args[1].url
                 /\ adapter_attempts[i].args = adapter_attempts[1].args
           /\ n = 2 <=> adapter_attempts[1].outcome.raised
           /\ n = 2 =>
                 /\ adapter_attempts[2].transport = "requests"
                 /\ adapter_out = Some(adapter_attempts[2].outcome)
           /\ n = 1 =>
                 /\ ~adapter_out[1].raised
                 /\ adapter_out[1].value.kind = "HttpxResponse"
                 /\ adapter_out[1].value.status_code =
                        adapter_attempts[1].outcome.value.status_code

\* httpx raised, requests was tried and raised too: the caller got the
\* second exception.
C19_Witness ==
    /\ adapter_method = "get"
    /\ Len(adapter_attempts) = 2
    /\ adapter_attempts[1].outcome.raised
    /\ adapter_attempts[2].outcome.raised
    /\ adapter_out = Some(Raised("ConnectionError", <<"Max retries exceeded">>))

\* httpx answered 404: returned as it is, one attempt.
C19_WitnessBadStatus ==
    /\ adapter_method = "post"
    /\ Len(adapter_attempts) = 1
    /\ adapter_out = Some(Returned([kind |-> "HttpxResponse", status_code |-> 404,
                                    text |-> "body"]))

=============================================================================
